---- MODULE Spec2Model ----
(***************************************************************************)
(* Model of the project-builder MCP server: the file_manager document     *)
(* store and merge function, the server's command handlers and State      *)
(* Store, the broadcast manager's subscriber set and the two background   *)
(* tasks (file watcher, periodic broadcast), for several server processes *)
(* sharing one filesystem.                                                 *)
(***************************************************************************)
EXTENDS Integers, Sequences, FiniteSets, TLC

VARIABLES
    now,                    \* wall clock in milliseconds (datetime.now())
    disk,                   \* projects/<name>/<file>: the Document Store
    registry,               \* project_registry.json
    marker,                 \* current_project.json
    state_version,          \* server_mcp_sdk.state_version, per process
    current_project_data,   \* server_mcp_sdk.current_project_data, per process
    bm_project_data,        \* broadcast_manager._current_project_data, per process
    last_known_version,     \* broadcast_manager._last_known_version, per process
    connected_frontends,    \* broadcast_manager.connected_frontends, per process
    closed_frontends,       \* connected websockets whose connection is closed, per process
    keep_alive_tasks,       \* websockets whose keep_alive task is looping, per process
    websocket_server,       \* broadcast_manager.websocket_server, per process
    background_tasks,       \* main's background tasks that are still looping, per process
    pc,                     \* where a command that runs step by step stands, per process
    last_broadcast_data,    \* periodic_broadcast's last_broadcast_data, per process
    step                    \* the step just taken: its arguments, result and events

vars == <<now, disk, registry, marker, state_version, current_project_data,
          bm_project_data, last_known_version, connected_frontends,
          closed_frontends, keep_alive_tasks, websocket_server, background_tasks, pc,
          last_broadcast_data, step>>

(***************************************************************************)
(* Bounds of the model.                                                    *)
(***************************************************************************)
MaxMutations == 2   \* no mutating command starts once the versions sum to this
MaxCommands == 3    \* the same, in the command specification

Procs == {"host", "sibling"}
SysSubs == {"s1"}   \* the subscribers of the system specification

(***************************************************************************)
(* Python / JSON values.  A value carries its Python type in t.            *)
(***************************************************************************)
D(f) == [t |-> "dict", v |-> f]
L(s) == [t |-> "list", v |-> s]
S(s) == [t |-> "str", v |-> s]
I(n) == [t |-> "int", v |-> n]
B(b) == [t |-> "bool", v |-> b]
T(n) == [t |-> "time", v |-> n]     \* datetime.isoformat() of clock value n
None == [t |-> "none", v |-> "None"]
EmptyDict == D(<<>>)

isinstance(x, type) == x.t = type

\* Python's numeric value of an int or a bool (True == 1, False == 0)
Num(x) == IF x.t = "bool" THEN (IF x.v THEN 1 ELSE 0) ELSE x.v

\* Python's ==, as list.__contains__ applies it
RECURSIVE PyEq(_, _)
PyEq(a, b) ==
    IF a.t = "list" /\ b.t = "list"
    THEN /\ Len(a.v) = Len(b.v)
         /\ \A i \in 1..Len(a.v) : PyEq(a.v[i], b.v[i])
    ELSE IF a.t = "dict" /\ b.t = "dict"
    THEN /\ DOMAIN a.v = DOMAIN b.v
         /\ \A k \in DOMAIN a.v : PyEq(a.v[k], b.v[k])
    ELSE IF a.t \in {"int", "bool"} /\ b.t \in {"int", "bool"}
    THEN Num(a) = Num(b)
    ELSE a.t = b.t /\ a.v = b.v

\* Python truthiness: `not x`
Falsy(x) ==
    \/ x.t = "none"
    \/ x.t = "str" /\ x.v = ""
    \/ x.t \in {"list", "dict"} /\ DOMAIN x.v = {}
    \/ x.t \in {"int", "bool"} /\ Num(x) = 0

\* `item in existing_items`
Contains(items, item) == \E i \in 1..Len(items) : PyEq(items[i], item)

(***************************************************************************)
(* utils/file_manager.py                                                   *)
(***************************************************************************)
VALID_FILE_TYPES ==
    {"requirement.js", "ddd.js", "frontend_data.js", "technical_architecture.js", "summary.md"}

\* the loop `for item in value: if item not in existing_items: append`
RECURSIVE AppendMissing(_, _)
AppendMissing(existing_items, value) ==
    IF value = <<>> THEN existing_items
    ELSE AppendMissing(IF Contains(existing_items, Head(value))
                       THEN existing_items
                       ELSE Append(existing_items, Head(value)),
                       Tail(value))

\* faulty variant: lists are concatenated, duplicates kept
AppendAll(existing_items, value) == existing_items \o value

ExtendList(existing_items, value) == AppendMissing(existing_items, value)

RECURSIVE deep_merge_dict(_, _)
deep_merge_dict(base, updates) ==
    D([key \in DOMAIN base.v \cup DOMAIN updates.v |->
        IF key \notin DOMAIN updates.v THEN base.v[key]
        ELSE IF key \notin DOMAIN base.v THEN updates.v[key]
        ELSE IF isinstance(base.v[key], "dict") /\ isinstance(updates.v[key], "dict")
             THEN deep_merge_dict(base.v[key], updates.v[key])
        ELSE IF isinstance(base.v[key], "list") /\ isinstance(updates.v[key], "list")
             THEN L(ExtendList(base.v[key].v, updates.v[key].v))
        ELSE updates.v[key]])

endswith_md(file_type) == file_type = "summary.md"

\* faulty variant: a text update under merge/append is appended to the stored text
TextWriteAppending(current, update_data, merge_strategy) ==
    IF merge_strategy = "replace" THEN update_data ELSE S(current.v \o update_data.v)

\* write_text_file(file_path, update_data): the strategy is not consulted
TextWrite(current, update_data, merge_strategy) == update_data

\* faulty variant: any payload is written to a markdown file
AnyText(update_data) == TRUE

\* `isinstance(update_data, str)`, the check of the markdown branch
is_text(update_data) == isinstance(update_data, "str")

\* update_json_file for an existing file of an existing project: the outcome
\* is [ok, error, data] where data is what the file holds afterwards, which
\* on success is also the returned value.
update_json_file(current, file_type, update_data, merge_strategy) ==
    IF endswith_md(file_type)
    THEN IF ~is_text(update_data)
         THEN [ok |-> FALSE, error |-> "ValueError", data |-> current]
         ELSE [ok |-> TRUE, error |-> "",
               data |-> TextWrite(current, update_data, merge_strategy)]
    ELSE IF ~isinstance(update_data, "dict")
         THEN [ok |-> FALSE, error |-> "ValueError", data |-> current]
         ELSE IF merge_strategy = "replace"
              THEN [ok |-> TRUE, error |-> "", data |-> update_data]
         ELSE IF merge_strategy \in {"merge", "append"}
              THEN [ok |-> TRUE, error |-> "", data |-> deep_merge_dict(current, update_data)]
         ELSE [ok |-> FALSE, error |-> "ValueError", data |-> current]


\* read_project_files(project_name)[key] for each file: the key a file is
\* stored under in the State Store and in events
file_key(file_type) ==
    CASE file_type = "requirement.js" -> "requirements"
      [] file_type = "ddd.js" -> "ddd"
      [] file_type = "frontend_data.js" -> "frontend_data"
      [] file_type = "technical_architecture.js" -> "technical_architecture"
      [] file_type = "summary.md" -> "summary"

project_exists(project_name) == project_name \in DOMAIN disk

\* None is modelled by the project's absence: callers test project_exists
read_project_files(project_name) ==
    [requirements |-> disk[project_name]["requirement.js"],
     ddd |-> disk[project_name]["ddd.js"],
     frontend_data |-> disk[project_name]["frontend_data.js"],
     technical_architecture |-> disk[project_name]["technical_architecture.js"],
     summary |-> disk[project_name]["summary.md"]]

\* a name that read_project_files can load: "" resolves to the projects
\* directory itself, which holds none of the required files
loadable(project_name) == project_name # "" /\ project_exists(project_name)

\* registry["projects"][project_name] = metadata
update_project_registry(project_name, metadata) ==
    [n \in DOMAIN registry \cup {project_name} |->
        IF n = project_name THEN metadata ELSE registry[n]]

\* the millisecond clock when the first process starts: int(datetime.now().timestamp()
\* * 1000) is far above any version a State Store counts up to
Epoch == 1000

\* write_current_project: the version is the millisecond timestamp
write_current_project(project_name) ==
    [present |-> TRUE, project_name |-> project_name, timestamp |-> now, version |-> now]

NoMarker == [present |-> FALSE, project_name |-> "", timestamp |-> 0, version |-> 0]

(***************************************************************************)
(* server_mcp_sdk.py: the documents of a new project                       *)
(***************************************************************************)
EmptyList == L(<<>>)

requirements_data(project_name) ==
    D([project_name |-> S(project_name), requirements |-> EmptyList,
       user_flows |-> EmptyList, features |-> EmptyList, pages |-> EmptyList,
       created_at |-> T(now)])

ddd_data ==
    D([bounded_contexts |-> EmptyList, entities |-> EmptyList,
       value_objects |-> EmptyList, aggregates |-> EmptyList,
       services |-> EmptyList, repositories |-> EmptyList,
       domain_events |-> EmptyList])

frontend_data ==
    D([pages |-> EmptyList,
       theme |-> D([colors |-> EmptyDict, fonts |-> EmptyDict]),
       interactions |-> EmptyList])

technical_architecture_data ==
    D([architecture_patterns |-> EmptyList,
       technology_stack |-> D([frontend |-> EmptyList, backend |-> EmptyList,
                               database |-> EmptyList, infrastructure |-> EmptyList]),
       system_components |-> EmptyList,
       api_design |-> D([rest_endpoints |-> EmptyList, graphql_schema |-> EmptyList,
                         websocket_events |-> EmptyList]),
       data_models |-> EmptyList,
       security |-> D([authentication |-> EmptyList, authorization |-> EmptyList,
                       encryption |-> EmptyList]),
       deployment |-> D([environments |-> EmptyList, ci_cd |-> EmptyList,
                         monitoring |-> EmptyList]),
       scalability |-> D([caching_strategy |-> EmptyList, load_balancing |-> EmptyList,
                          database_optimization |-> EmptyList])])

\* the summary template, reduced to its heading line
summary_content(project_name) == S("# " \o project_name)

new_project_files(project_name) ==
    [file_type \in VALID_FILE_TYPES |->
        CASE file_type = "requirement.js" -> requirements_data(project_name)
          [] file_type = "ddd.js" -> ddd_data
          [] file_type = "frontend_data.js" -> frontend_data
          [] file_type = "technical_architecture.js" -> technical_architecture_data
          [] file_type = "summary.md" -> summary_content(project_name)]

(***************************************************************************)
(* State Store, events and step records                                    *)
(***************************************************************************)
DocKeys == {"requirements", "ddd", "frontend_data", "technical_architecture", "summary"}
EventKeys == {"requirements", "ddd", "frontend_data", "technical_architecture"}

\* current_project_data at module import
empty_project_data ==
    [project_name |-> "", requirements |-> EmptyDict, ddd |-> EmptyDict,
     frontend_data |-> EmptyDict, technical_architecture |-> EmptyDict,
     summary |-> S(""), version |-> 0, last_updated |-> S(""), last_command |-> ""]

\* the documents a State Store record holds
documents(data) == [k \in DocKeys |-> data[k]]

\* the four documents an event carries in "data"
event_data(files) == [k \in EventKeys |-> files[k]]

\* the arguments of a step; fault is what the filesystem does to it,
\* websocket the connection a hub step is about
NoArgs ==
    [project_name |-> "", file_type |-> "", update_data |-> None, merge_strategy |-> "",
     fault |-> "none", websocket |-> ""]

\* faulty variant: the first failing send ends the broadcast
DeliveredUnlessAnyFails(clients, failing) == IF failing = {} THEN clients ELSE {}

\* asyncio.gather(*sends, return_exceptions=True): every send is started, a
\* failing one yields its exception as a result and the others complete
Delivered(clients, failing) == clients \ failing

\* broadcast_to_frontends(message): one send to every connected frontend; a
\* send on a closed connection raises ConnectionClosed.  The event records
\* whom the message was sent to and who received it.
broadcast_to_frontends(proc, message) ==
    IF connected_frontends[proc] # {}
    THEN <<[message EXCEPT
              !.to = connected_frontends[proc],
              !.delivered = Delivered(connected_frontends[proc],
                                      connected_frontends[proc] \cap closed_frontends[proc])]>>
    ELSE <<>>

\* a message with top-level "version" and "timestamp"
message(type, command, version, timestamp, project_name, data) ==
    [type |-> type, command |-> command, has_version |-> TRUE, version |-> version,
     timestamp |-> timestamp, project_name |-> project_name, data |-> data, to |-> {},
     delivered |-> {}]

\* no command of the process is between two of its steps
Idle == [at |-> 0, op |-> "", args |-> NoArgs, data |-> empty_project_data,
         started |-> [state_version |-> 0, now |-> 0, document |-> None]]

Result(proc, op, args, status, ret, events) ==
    [proc |-> proc, op |-> op, args |-> args, status |-> status, ret |-> ret,
     events |-> events]

Init ==
    /\ now = Epoch
    /\ disk = <<>>
    /\ registry = <<>>
    /\ marker = NoMarker
    /\ state_version = [p \in Procs |-> 0]
    /\ current_project_data = [p \in Procs |-> empty_project_data]
    /\ bm_project_data = [p \in Procs |-> [k \in DocKeys \cup {"project_name"} |-> empty_project_data[k]]]
    /\ last_known_version = [p \in Procs |-> 0]
    /\ connected_frontends = [p \in Procs |-> {}]
    /\ closed_frontends = [p \in Procs |-> {}]
    /\ websocket_server = [p \in Procs |-> "running"]
    /\ background_tasks = [p \in Procs |-> {"file_watcher", "periodic_broadcast"}]
    /\ pc = [p \in Procs |-> Idle]
    /\ keep_alive_tasks = [p \in Procs |-> {}]
    /\ last_broadcast_data = [p \in Procs |-> None]
    /\ step = Result("", "init", NoArgs, "", None, <<>>)


(***************************************************************************)
(* Inputs                                                                   *)
(***************************************************************************)
ProjectNames == {"p", "q"}          \* names that pass the isalnum check

\* the characters of the names the model passes to host_tool
characters(name) ==
    CASE name = "" -> <<>>
      [] name = "p" -> <<"p">>
      [] name = "q" -> <<"q">>
      [] name = "a_b" -> <<"a", "_", "b">>
      [] name = "a-b" -> <<"a", "-", "b">>
      [] name = "_" -> <<"_">>

\* the characters str.isalnum accepts among those above
Alnum == {"a", "b", "p", "q"}

\* faulty variant: every name passes
AnyNameValid(name) == TRUE

\* project_name.replace("_", "").isalnum(): isalnum is False for the empty string
valid_project_name(name) ==
    LET not_underscore(c) == c # "_"
        replaced == SelectSeq(characters(name), not_underscore)
    IN  replaced # <<>> /\ \A i \in DOMAIN replaced : replaced[i] \in Alnum

features_login == D([features |-> L(<<S("login")>>)])
entities_user == D([entities |-> L(<<S("user")>>)])

UpdateArgs(project_name, file_type, update_data, merge_strategy) ==
    [project_name |-> project_name, file_type |-> file_type,
     update_data |-> update_data, merge_strategy |-> merge_strategy, fault |-> "none",
     websocket |-> ""]

\* the update commands of the system specification
SysUpdates ==
    { UpdateArgs(n, "requirement.js", features_login, "merge") : n \in ProjectNames }
    \cup { UpdateArgs(n, "ddd.js", entities_user, "replace") : n \in ProjectNames }
    \cup { UpdateArgs("p", "summary.md", S("notes"), "append") }

\* json.loads(update_data) for the strings the model passes
json_loads(text) ==
    CASE text = "{}" -> [ok |-> TRUE, value |-> EmptyDict]
      [] text = "{\"features\": [\"login\"]}" -> [ok |-> TRUE, value |-> features_login]
      [] text = "[1]" -> [ok |-> TRUE, value |-> L(<<I(1)>>)]
      [] OTHER -> [ok |-> FALSE, value |-> None]

\* _current_project_data.update(project_data)
set_current_project_data(old, project_data) ==
    [k \in DOMAIN old \cup DOMAIN project_data |->
        IF k \in DOMAIN project_data THEN project_data[k] ELSE old[k]]

(***************************************************************************)
(* server_mcp_sdk.py: command handlers                                     *)
(***************************************************************************)
Unchanged_shared == UNCHANGED <<now, disk, registry, marker>>
Unchanged_process ==
    UNCHANGED <<state_version, current_project_data, bm_project_data,
                last_known_version, connected_frontends, closed_frontends,
                keep_alive_tasks, websocket_server, background_tasks, pc, last_broadcast_data>>

RECURSIVE SumVersions(_)
SumVersions(procs) ==
    IF procs = {} THEN 0
    ELSE LET proc == CHOOSE x \in procs : TRUE
         IN state_version[proc] + SumVersions(procs \ {proc})

\* the bound on a run: no command is issued once the version bumps of all
\* processes sum to MaxMutations
WithinBudget == SumVersions(Procs) < MaxMutations

\* faulty variant: the command reports success although it did nothing
RejectedAsSuccess(proc, op, args, status) ==
    /\ step' = Result(proc, op, args, "success", None, <<>>)
    /\ Unchanged_shared
    /\ Unchanged_process

\* a command that returns without touching anything
Rejected(proc, op, args, status) ==
    /\ step' = Result(proc, op, args, status, None, <<>>)
    /\ Unchanged_shared
    /\ Unchanged_process

\* faulty variant: the version counter is not advanced
SameVersion(version) == version

\* state_version += 1
NextVersion(version) == version + 1

\* the State Store write shared by the mutating handlers, followed by
\* set_current_project_data and write_current_project.  Every marker write
\* falls in a later millisecond than the one before: the clock moves on with
\* each of them.
StoreAndMark(proc, data, marked_name) ==
    /\ state_version' = [state_version EXCEPT ![proc] = data.version]
    /\ current_project_data' = [current_project_data EXCEPT ![proc] = data]
    /\ bm_project_data' = [bm_project_data EXCEPT
                             ![proc] = set_current_project_data(@, data)]
    /\ marker' = write_current_project(marked_name)
    /\ now' = now + 1

\* "marker": the marker file cannot be written, write_current_project raises
MarkerWriteFaults == {"marker"}

\* the State Store assignments and set_current_project_data of a handler whose
\* write_current_project then raises
StoreUnmarked(proc, data) ==
    /\ state_version' = [state_version EXCEPT ![proc] = data.version]
    /\ current_project_data' = [current_project_data EXCEPT ![proc] = data]
    /\ bm_project_data' = [bm_project_data EXCEPT
                             ![proc] = set_current_project_data(@, data)]
    /\ UNCHANGED <<marker, now>>

handle_host_tool(proc, project_name) ==
    LET args == [NoArgs EXCEPT !.project_name = project_name]
        previous_project == current_project_data[proc].project_name
        files == new_project_files(project_name)
        data == [project_name |-> project_name,
                 requirements |-> files["requirement.js"],
                 ddd |-> files["ddd.js"],
                 frontend_data |-> files["frontend_data.js"],
                 technical_architecture |-> files["technical_architecture.js"],
                 summary |-> files["summary.md"],
                 version |-> NextVersion(state_version[proc]),
                 last_updated |-> T(now),
                 last_command |-> "host_tool"]
        is_project_switch == previous_project # "" /\ previous_project # project_name
        broadcast_message ==
            message(IF is_project_switch THEN "project_switched" ELSE "project_initialized",
                    "host_tool", data.version, T(now), project_name, event_data(data))
    IN
    /\ IF project_name = "" \/ ~valid_project_name(project_name)
          \/ project_exists(project_name)
       THEN Rejected(proc, "host_tool", args, "error")
       ELSE /\ disk' = [n \in DOMAIN disk \cup {project_name} |->
                          IF n = project_name THEN files ELSE disk[n]]
            /\ registry' = update_project_registry(project_name,
                              [created_at |-> now, last_updated |-> now,
                               status |-> "initialized"])
            /\ StoreAndMark(proc, data, project_name)
            /\ step' = Result(proc, "host_tool", args, "success", None,
                              broadcast_to_frontends(proc, broadcast_message))
            /\ UNCHANGED <<last_known_version, connected_frontends, closed_frontends,
                           keep_alive_tasks, websocket_server, background_tasks, pc, last_broadcast_data>>

handle_update_project_files(proc, args) ==
    LET project_name == args.project_name
        file_type == args.file_type
        merge_strategy == args.merge_strategy
        \* a JSON string passed for a .js file is parsed first
        parsed == IF file_type # "" /\ ~endswith_md(file_type)
                     /\ isinstance(args.update_data, "str")
                  THEN json_loads(args.update_data.v)
                  ELSE [ok |-> TRUE, value |-> args.update_data]
        update_data == parsed.value
        outcome == update_json_file(disk[project_name][file_type], file_type,
                                    update_data, merge_strategy)
        updated_data == outcome.data
        data == [current_project_data[proc] EXCEPT
                    ![file_key(file_type)] = updated_data,
                    !.project_name = project_name,
                    !.version = NextVersion(state_version[proc]),
                    !.last_updated = T(now),
                    !.last_command = "update_project_files"]
        broadcast_message ==
            message("files_updated", "update_project_files", data.version, T(now),
                    project_name, event_data(data))
    IN
    /\ IF \/ ~parsed.ok
          \/ project_name = ""
          \/ file_type = ""
          \/ Falsy(update_data)
          \/ file_type \notin VALID_FILE_TYPES
          \/ ~project_exists(project_name)
       THEN Rejected(proc, "update_project_files", args, "error")
       ELSE IF ~outcome.ok
       THEN Rejected(proc, "update_project_files", args, "error")
       ELSE IF args.fault \in MarkerWriteFaults
       THEN \* write_current_project raises after the file and the State Store were
            \* written; `except Exception` returns the error result
            /\ disk' = [disk EXCEPT ![project_name][file_type] = updated_data]
            /\ StoreUnmarked(proc, data)
            /\ step' = Result(proc, "update_project_files", args, "error", None, <<>>)
            /\ UNCHANGED <<registry, last_known_version, connected_frontends,
                           closed_frontends, keep_alive_tasks, websocket_server,
                           background_tasks, pc, last_broadcast_data>>
       ELSE /\ disk' = [disk EXCEPT ![project_name][file_type] = updated_data]
            /\ StoreAndMark(proc, data, project_name)
            /\ registry' = update_project_registry(project_name,
                              [last_updated |-> now, status |-> "updated"])
            /\ step' = Result(proc, "update_project_files", args, "success", updated_data,
                              broadcast_to_frontends(proc, broadcast_message))
            /\ UNCHANGED <<last_known_version, connected_frontends, closed_frontends,
                           keep_alive_tasks, websocket_server, background_tasks, pc, last_broadcast_data>>


handle_select_project(proc, project_name) ==
    LET args == [NoArgs EXCEPT !.project_name = project_name]
        previous_project == current_project_data[proc].project_name
        project_files == read_project_files(project_name)
        data == [project_name |-> project_name,
                 requirements |-> project_files.requirements,
                 ddd |-> project_files.ddd,
                 frontend_data |-> project_files.frontend_data,
                 technical_architecture |-> project_files.technical_architecture,
                 summary |-> project_files.summary,
                 version |-> NextVersion(state_version[proc]),
                 last_updated |-> T(now),
                 last_command |-> "select_project"]
        is_project_switch == previous_project # "" /\ previous_project # project_name
        broadcast_message ==
            message(IF is_project_switch THEN "project_switched" ELSE "project_initialized",
                    "select_project", data.version, T(now), project_name, event_data(data))
    IN
    /\ IF project_name = "" \/ ~project_exists(project_name)
       THEN Rejected(proc, "select_project", args, "error")
       ELSE /\ StoreAndMark(proc, data, project_name)
            /\ step' = Result(proc, "select_project", args, "success", None,
                              broadcast_to_frontends(proc, broadcast_message))
            /\ UNCHANGED <<disk, registry, last_known_version, connected_frontends,
                           closed_frontends, keep_alive_tasks, websocket_server, background_tasks, pc,
                           last_broadcast_data>>

\* what the filesystem may do to the two removals of delete_project:
\*   "locked"    a file of the project cannot be removed
\*   "folder"    rmtree and the manual retry both raise
\*   "registry"  the registry cannot be written
\*   "both"      "folder" and "registry"
DeleteFaults == {"none", "locked", "folder", "registry", "both"}

\* delete_project_directory: rmtree hands every failing removal to
\* handle_remove_readonly, which retries and then passes, so rmtree returns
\* and the function returns True with the directory still there; raised is
\* the function's `raise Exception`
delete_project_directory(project_name, fault) ==
    [raised |-> fault \in {"folder", "both"},
     removed |-> fault \notin {"locked", "folder", "both"}]

\* remove_from_registry: raises when the project is not in the registry or
\* the registry cannot be written
remove_from_registry(project_name, fault) ==
    [raised |-> fault \in {"registry", "both"} \/ project_name \notin DOMAIN registry]

handle_delete_project(proc, project_name, fault) ==
    LET args == [NoArgs EXCEPT !.project_name = project_name, !.fault = fault]
        is_active_project_local == current_project_data[proc].project_name = project_name
        is_active_project_shared == marker.present /\ marker.project_name = project_name
        is_active_project == is_active_project_local \/ is_active_project_shared
        directory == delete_project_directory(project_name, fault)
        folder_deleted == ~directory.raised
        registry_updated == ~remove_from_registry(project_name, fault).raised
        cleared == [empty_project_data EXCEPT
                      !.version = NextVersion(state_version[proc]),
                      !.last_updated = T(now),
                      !.last_command = "delete_project"]
        broadcast_message ==
            message("project_deleted", "delete_project", cleared.version, T(now),
                    project_name, <<>>)
        status == IF folder_deleted /\ registry_updated THEN "success"
                  ELSE IF registry_updated /\ ~folder_deleted THEN "partial_success"
                  ELSE "error"
    IN
    /\ IF project_name = "" \/ ~project_exists(project_name)
       THEN Rejected(proc, "delete_project", args, "error")
       ELSE /\ disk' = IF directory.removed
                       THEN [n \in DOMAIN disk \ {project_name} |-> disk[n]]
                       ELSE disk
            /\ registry' = IF registry_updated
                           THEN [n \in DOMAIN registry \ {project_name} |-> registry[n]]
                           ELSE registry
            /\ IF is_active_project /\ (folder_deleted \/ registry_updated)
                  /\ fault \in MarkerWriteFaults
               THEN \* write_current_project("") raises outside any try block: the
                    \* exception leaves the handler, no result is returned
                    /\ StoreUnmarked(proc, cleared)
                    /\ step' = Result(proc, "delete_project", args, "raised", None, <<>>)
               ELSE IF is_active_project /\ (folder_deleted \/ registry_updated)
               THEN /\ StoreAndMark(proc, cleared, "")
                    /\ step' = Result(proc, "delete_project", args, status,
                                      [folder_deleted |-> folder_deleted,
                                       registry_updated |-> registry_updated],
                                      broadcast_to_frontends(proc, broadcast_message))
               ELSE /\ step' = Result(proc, "delete_project", args, status,
                                      [folder_deleted |-> folder_deleted,
                                       registry_updated |-> registry_updated],
                                      <<>>)
                    /\ UNCHANGED <<now, state_version, current_project_data,
                                   bm_project_data, marker>>
            /\ UNCHANGED <<last_known_version, connected_frontends, closed_frontends,
                           keep_alive_tasks, websocket_server, background_tasks, pc, last_broadcast_data>>

(***************************************************************************)
(* utils/broadcast_manager.py: the file watcher; server_mcp_sdk.py: the    *)
(* periodic broadcast                                                      *)
(***************************************************************************)
\* faulty variant: a marker of equal version is adopted too
NotOlder(file_version, known_version) == file_version >= known_version

\* `if file_version > _last_known_version`
Newer(file_version, known_version) == file_version > known_version

\* the "type" of the watcher's message
watcher_event_type(proc, project_name) == "project_switched"

\* what a read of the marker file can meet: the file as written, no file, a file
\* truncated by a writer that has not written yet, a prefix of the JSON text
MarkerReads == {"none", "missing", "empty", "partial"}

\* faulty variant: a read that fails yields a record as if freshly written
ReadsFreshRecord(fault) ==
    IF fault = "none" THEN marker
    ELSE [marker EXCEPT !.present = TRUE, !.version = now]

\* read_current_project: {} when the file does not exist; read_json_file gives {}
\* for empty content and for text that does not parse (a prefix of a JSON object
\* never parses); any other exception is caught and gives {}
read_current_project(fault) ==
    IF fault = "none" THEN marker ELSE NoMarker

\* one iteration of watch_current_project_file after its sleep
watch_current_project_file(proc, fault) ==
    LET current_project_info == read_current_project(fault)
        file_version == current_project_info.version
        project_name == current_project_info.project_name
        broadcast_message ==
            message(watcher_event_type(proc, project_name), "file_watcher", file_version,
                    T(current_project_info.timestamp), project_name,
                    event_data(read_project_files(project_name)))
    IN
    /\ Unchanged_shared
    /\ UNCHANGED <<state_version, current_project_data, bm_project_data,
                   connected_frontends, closed_frontends, keep_alive_tasks,
                   websocket_server, background_tasks, pc, last_broadcast_data>>
    /\ "file_watcher" \in background_tasks[proc]
    /\ IF ~current_project_info.present
       THEN /\ step' = Result(proc, "watch", [NoArgs EXCEPT !.fault = fault], "no_marker",
                              None, <<>>)
            /\ UNCHANGED last_known_version
       ELSE IF Newer(file_version, last_known_version[proc])
       THEN /\ last_known_version' = [last_known_version EXCEPT ![proc] = file_version]
            /\ step' = Result(proc, "watch", [NoArgs EXCEPT !.project_name = project_name],
                              "adopted", None,
                              IF loadable(project_name)
                              THEN broadcast_to_frontends(proc, broadcast_message)
                              ELSE <<>>)
       ELSE /\ step' = Result(proc, "watch", [NoArgs EXCEPT !.project_name = project_name],
                              "ignored", None, <<>>)
            /\ UNCHANGED last_known_version

\* faulty variant: every tick counts as a change
AlwaysChanged(current_snapshot, last) == TRUE

\* periodic_broadcast's test: the two snapshots serialised with sorted keys
\* differ, which for JSON values is structural inequality whatever the key order
snapshot_changed(current_snapshot, last) == current_snapshot # last

\* one iteration of periodic_broadcast after its sleep
periodic_broadcast(proc) ==
    LET project_name == current_project_data[proc].project_name
        updated_data == read_project_files(project_name)
        current_snapshot == [project_name |-> S(project_name),
                             requirements |-> updated_data.requirements,
                             ddd |-> updated_data.ddd,
                             frontend_data |-> updated_data.frontend_data,
                             technical_architecture |-> updated_data.technical_architecture]
        data == [current_project_data[proc] EXCEPT
                    !.requirements = updated_data.requirements,
                    !.ddd = updated_data.ddd,
                    !.frontend_data = updated_data.frontend_data,
                    !.technical_architecture = updated_data.technical_architecture]
        broadcast_message ==
            [message("project_initialized", "", 0, T(now), project_name, event_data(data))
                EXCEPT !.has_version = FALSE]
    IN
    /\ "periodic_broadcast" \in background_tasks[proc]
    /\ Unchanged_shared
    /\ UNCHANGED <<state_version, last_known_version, connected_frontends,
                   closed_frontends, keep_alive_tasks, websocket_server, background_tasks, pc>>
    /\ IF project_name # "" /\ project_exists(project_name)
          /\ snapshot_changed(D(current_snapshot), last_broadcast_data[proc])
       THEN /\ current_project_data' = [current_project_data EXCEPT ![proc] = data]
            /\ bm_project_data' = [bm_project_data EXCEPT
                                     ![proc] = set_current_project_data(@, data)]
            /\ last_broadcast_data' = [last_broadcast_data EXCEPT
                                         ![proc] = D(current_snapshot)]
            /\ step' = Result(proc, "periodic", NoArgs, "broadcast", None,
                              broadcast_to_frontends(proc, broadcast_message))
       ELSE /\ step' = Result(proc, "periodic", NoArgs, "skipped", None, <<>>)
            /\ UNCHANGED <<current_project_data, bm_project_data, last_broadcast_data>>

\* handle_frontend_connection: connected_frontends.add(websocket) and the
\* start of the connection's keep_alive task; a new connection is a handle that no
\* running handler holds
frontend_connects(proc, websocket) ==
    /\ websocket_server[proc] = "running"
    /\ websocket \notin connected_frontends[proc] \cup closed_frontends[proc]
    /\ connected_frontends' = [connected_frontends EXCEPT ![proc] = @ \cup {websocket}]
    /\ keep_alive_tasks' = [keep_alive_tasks EXCEPT ![proc] = @ \cup {websocket}]
    /\ UNCHANGED closed_frontends
    /\ step' = Result(proc, "connect", [NoArgs EXCEPT !.websocket = websocket], "", None, <<>>)
    /\ Unchanged_shared
    /\ UNCHANGED <<state_version, current_project_data, bm_project_data,
                   last_known_version, websocket_server, background_tasks, pc, last_broadcast_data>>

\* connected_frontends.remove(websocket): set.remove raises KeyError when the
\* element is not in the set
remove(frontends, websocket) == IF websocket \in frontends THEN "" ELSE "raised"

\* handle_frontend_connection: the message loop has ended; the finally block
\* cancels the keep_alive task and does connected_frontends.remove(websocket).
\* The handler of a websocket runs while the websocket is registered, and goes
\* on running when stop_websocket_server has closed and forgotten it
frontend_disconnects(proc, websocket) ==
    /\ websocket \in connected_frontends[proc] \cup closed_frontends[proc]
    /\ connected_frontends' = [connected_frontends EXCEPT ![proc] = @ \ {websocket}]
    /\ keep_alive_tasks' = [keep_alive_tasks EXCEPT ![proc] = @ \ {websocket}]
    /\ closed_frontends' = [closed_frontends EXCEPT ![proc] = @ \ {websocket}]
    /\ step' = Result(proc, "disconnect", [NoArgs EXCEPT !.websocket = websocket],
                      remove(connected_frontends[proc], websocket), None, <<>>)
    /\ Unchanged_shared
    /\ UNCHANGED <<state_version, current_project_data, bm_project_data,
                   last_known_version, websocket_server, background_tasks, pc, last_broadcast_data>>

\* Process "host" is driven by a host that issues every command; process
\* "sibling" runs on the same filesystem and its host only creates projects.
\* The background tasks and the subscribers are the same for both.
Host == "host"

Next ==
    \/ WithinBudget /\ \E proc \in Procs, project_name \in ProjectNames :
                           handle_host_tool(proc, project_name)
    \/ WithinBudget /\ \E args \in SysUpdates : handle_update_project_files(Host, args)
    \/ WithinBudget /\ \E project_name \in ProjectNames :
                           handle_select_project(Host, project_name)
    \/ WithinBudget /\ \E project_name \in ProjectNames :
                           handle_delete_project(Host, project_name, "none")
    \/ \E proc \in Procs : watch_current_project_file(proc, "none")
    \/ \E proc \in Procs : periodic_broadcast(proc)
    \/ \E proc \in Procs, websocket \in SysSubs : frontend_connects(proc, websocket)
    \/ \E proc \in Procs, websocket \in SysSubs : frontend_disconnects(proc, websocket)

Spec == Init /\ [][Next]_vars


(***************************************************************************)
(* Properties of the system specification                                  *)
(***************************************************************************)
MutatingOps == {"host_tool", "update_project_files", "select_project", "delete_project"}

\* the step just taken is a successful mutating command of the State Store:
\* a delete counts when it names the project loaded before the step
SuccessfulMutation ==
    /\ step'.op \in MutatingOps
    /\ step'.status = "success"
    /\ step'.op = "delete_project" =>
          current_project_data[step'.proc].project_name = step'.args.project_name

\* C1: every successful mutating command (host_tool, update_project_files,
\* select_project, delete_project of the loaded project) raises state_version
\* and current_project_data["version"] of its process by exactly 1, the two
\* stay equal, and no step of any process lowers them.
C1_VersionUpByOne ==
    [][ /\ \A proc \in Procs :
              /\ state_version'[proc] >= state_version[proc]
              /\ current_project_data'[proc].version >= current_project_data[proc].version
              /\ current_project_data'[proc].version = state_version'[proc]
        /\ SuccessfulMutation =>
              /\ state_version'[step'.proc] = state_version[step'.proc] + 1
              /\ current_project_data'[step'.proc].version
                    = current_project_data[step'.proc].version + 1 ]_vars

C1_Witness ==
    /\ step.op = "delete_project" /\ step.status = "success"
    /\ state_version[step.proc] = 2
    /\ current_project_data[step.proc].last_command = "delete_project"

\* C2: a step that changes the documents held in a process's State Store
\* raises that process's version by exactly 1 and stamps last_updated.
C2_DocumentsChangeOnlyWithBump ==
    [][ \A proc \in Procs :
          documents(current_project_data'[proc]) # documents(current_project_data[proc])
          => /\ state_version'[proc] = state_version[proc] + 1
             /\ current_project_data'[proc].version = current_project_data[proc].version + 1
             /\ current_project_data'[proc].last_updated = T(now) ]_vars

\* the watcher of step'.proc has just adopted a marker naming a project that
\* exists and is not the one loaded in that process
AdoptedOtherProject ==
    /\ step'.op = "watch" /\ step'.status = "adopted"
    /\ loadable(marker.project_name)
    /\ current_project_data[step'.proc].project_name # ""
    /\ marker.project_name # current_project_data[step'.proc].project_name

\* C3: when the watcher meets a marker newer than last_known_version that names
\* another project than the one loaded, that tick loads the project's
\* documents from the Document Store into the State Store and broadcasts a
\* "project_switched" event to the connected subscribers.
C3_WatcherReloadsAndSwitches ==
    [][ AdoptedOtherProject =>
          /\ current_project_data'[step'.proc].project_name = marker.project_name
          /\ documents(current_project_data'[step'.proc])
                = documents(read_project_files(marker.project_name))
          /\ connected_frontends[step'.proc] # {} =>
                /\ Len(step'.events) = 1
                /\ step'.events[1].type = "project_switched"
                /\ step'.events[1].to = connected_frontends[step'.proc] ]_vars

\* C4: last_known_version starts at 0 and never decreases; it changes only
\* when the watcher meets a marker of strictly greater version, and then
\* becomes that version; a watcher tick on a marker of version <=
\* last_known_version changes neither it nor the State Store and broadcasts
\* nothing.
C4_MonotonicAcceptance ==
    /\ \A proc \in Procs : last_known_version[proc] = 0
    /\ [][ \A proc \in Procs :
             /\ last_known_version'[proc] >= last_known_version[proc]
             /\ last_known_version'[proc] # last_known_version[proc]
                => /\ step'.op = "watch" /\ step'.proc = proc
                   /\ marker.present
                   /\ marker.version > last_known_version[proc]
                   /\ last_known_version'[proc] = marker.version
             /\ (/\ step'.op = "watch" /\ step'.proc = proc
                 /\ marker.version <= last_known_version[proc])
                => /\ last_known_version'[proc] = last_known_version[proc]
                   /\ current_project_data' = current_project_data
                   /\ bm_project_data' = bm_project_data
                   /\ step'.events = <<>> ]_vars

\* a subscriber is connected, the marker names a project on disk, and the
\* watcher has just ignored it because its version is not newer
C4_Witness ==
    /\ step.op = "watch" /\ step.status = "ignored"
    /\ marker.present /\ loadable(marker.project_name)
    /\ marker.version = last_known_version[step.proc]
    /\ connected_frontends[step.proc] # {}

\* C5: the event the watcher broadcasts on adopting a marker is
\* "project_switched" only when the marker's project differs from the one
\* loaded; for the project already loaded it is an update event.
C5_WatcherEventTypeByProject ==
    [][ (step'.op = "watch" /\ step'.status = "adopted" /\ step'.events # <<>>)
        => (step'.events[1].type = "project_switched"
              <=> marker.project_name # current_project_data[step'.proc].project_name) ]_vars


C24_EventsCarryVersionAndTimestamp ==
    [][\A i \in DOMAIN step'.events :
          /\ step'.events[i].has_version
          /\ step'.events[i].version = state_version'[step'.proc]
          /\ step'.events[i].timestamp # None]_vars

(***************************************************************************)
(* The merge specification: one process, started on a filesystem that      *)
(* already holds project "p", receives update_project_files commands.      *)
(***************************************************************************)
features_dups == D([features |-> L(<<S("signup"), S("login"), S("signup")>>)])
nested_update ==
    D([theme |-> D([colors |-> D([primary |-> S("blue")])]),
       count |-> L(<<I(1)>>),
       pages |-> L(<<D([id |-> I(1)]), D([id |-> B(TRUE)]), D([id |-> I(2)])>>)])

MergePayloads ==
    {features_login, features_dups, nested_update, EmptyDict,
     S("{\"features\": [\"login\"]}"), S("[1]"), S("notes"), S(""), L(<<I(1)>>)}

MergeStrategies == {"replace", "merge", "append", "bogus"}

MergeUpdates ==
    { UpdateArgs("p", file_type, update_data, merge_strategy) :
        file_type \in {"requirement.js", "summary.md"},
        update_data \in MergePayloads,
        merge_strategy \in MergeStrategies }

\* requirement.js as stored by earlier runs
StoredDocuments ==
    { D([project_name |-> S("p"), requirements |-> EmptyList, user_flows |-> EmptyList,
         features |-> EmptyList, pages |-> EmptyList, created_at |-> T(Epoch)]),
      D([features |-> L(<<S("login")>>),
         theme |-> D([colors |-> D([primary |-> S("red"), accent |-> S("green")]),
                      fonts |-> EmptyDict]),
         count |-> I(1),
         pages |-> L(<<D([id |-> I(1)])>>)]),
      EmptyDict }

InitMerge ==
    /\ now = Epoch + 1
    /\ \E stored \in StoredDocuments :
          disk = [n \in {"p"} |->
                    [file_type \in VALID_FILE_TYPES |->
                        CASE file_type = "requirement.js" -> stored
                          [] file_type = "ddd.js" -> ddd_data
                          [] file_type = "frontend_data.js" -> frontend_data
                          [] file_type = "technical_architecture.js" -> technical_architecture_data
                          [] file_type = "summary.md" -> S("# p")]]
    /\ registry = [n \in {"p"} |->
                     [created_at |-> Epoch, last_updated |-> Epoch, status |-> "initialized"]]
    /\ marker = [present |-> TRUE, project_name |-> "p", timestamp |-> Epoch, version |-> Epoch]
    /\ state_version = [p \in Procs |-> 0]
    /\ current_project_data = [p \in Procs |-> empty_project_data]
    /\ bm_project_data = [p \in Procs |-> [k \in DocKeys \cup {"project_name"} |-> empty_project_data[k]]]
    /\ last_known_version = [p \in Procs |-> 0]
    /\ \E websockets \in SUBSET SysSubs :
          /\ connected_frontends = [p \in Procs |-> IF p = Host THEN websockets ELSE {}]
          /\ keep_alive_tasks = [p \in Procs |-> IF p = Host THEN websockets ELSE {}]
    /\ closed_frontends = [p \in Procs |-> {}]
    /\ websocket_server = [p \in Procs |-> "running"]
    /\ background_tasks = [p \in Procs |-> {"file_watcher", "periodic_broadcast"}]
    /\ pc = [p \in Procs |-> Idle]
    /\ last_broadcast_data = [p \in Procs |-> None]
    /\ step = Result("", "init", NoArgs, "", None, <<>>)

NextMerge == WithinBudget /\ \E args \in MergeUpdates : handle_update_project_files(Host, args)

SpecMerge == InitMerge /\ [][NextMerge]_vars

\* the update payload as the handler passes it on: a JSON string given for a
\* .js file stands for the value it encodes
Payload(args) ==
    IF ~endswith_md(args.file_type) /\ isinstance(args.update_data, "str")
    THEN json_loads(args.update_data.v).value
    ELSE args.update_data

\* the step just taken is a successful update_project_files
UpdateSucceeded ==
    step'.op = "update_project_files" /\ step'.status = "success"

\* the document an update_project_files step addresses, before and after
Stored(args) == disk[args.project_name][args.file_type]
StoredAfter(args) == disk'[args.project_name][args.file_type]

\* the elements of update, in order, that are neither in stored nor earlier
\* in update, under deep value equality
RECURSIVE NotYetPresent(_, _, _)
NotYetPresent(stored, update, i) ==
    IF i > Len(update) THEN <<>>
    ELSE IF \/ \E j \in 1..Len(stored) : PyEq(stored[j], update[i])
            \/ \E j \in 1..(i - 1) : PyEq(update[j], update[i])
         THEN NotYetPresent(stored, update, i + 1)
         ELSE <<update[i]>> \o NotYetPresent(stored, update, i + 1)

\* the merge of two objects as the claim words it
RECURSIVE ClaimedMerge(_, _)
ClaimedMerge(stored, update) ==
    D([key \in DOMAIN stored.v \cup DOMAIN update.v |->
        IF key \notin DOMAIN update.v THEN stored.v[key]
        ELSE IF key \notin DOMAIN stored.v THEN update.v[key]
        ELSE IF stored.v[key].t = "dict" /\ update.v[key].t = "dict"
             THEN ClaimedMerge(stored.v[key], update.v[key])
        ELSE IF stored.v[key].t = "list" /\ update.v[key].t = "list"
             THEN L(stored.v[key].v \o NotYetPresent(stored.v[key].v, update.v[key].v, 1))
        ELSE update.v[key]])

\* C6: under merge and under append a successful update of a structured
\* document stores and returns the deep merge of the stored document and the
\* payload: objects merged key by key, a stored sequence followed in order by
\* the payload's elements not yet present under deep value equality, the
\* payload's value on any other collision, the payload's new keys added.
C6_MergeAndAppendDeepMerge ==
    [][ (/\ UpdateSucceeded
         /\ ~endswith_md(step'.args.file_type)
         /\ step'.args.merge_strategy \in {"merge", "append"})
        => /\ StoredAfter(step'.args) = ClaimedMerge(Stored(step'.args), Payload(step'.args))
           /\ step'.ret = ClaimedMerge(Stored(step'.args), Payload(step'.args))
           /\ current_project_data'[step'.proc][file_key(step'.args.file_type)]
                 = StoredAfter(step'.args) ]_vars

\* stored [login], payload [signup, login, signup] appended: [login, signup]
C6_Witness ==
    /\ step.op = "update_project_files" /\ step.status = "success"
    /\ step.args.merge_strategy = "append"
    /\ step.args.update_data = features_dups
    /\ "count" \in DOMAIN disk["p"]["requirement.js"].v
    /\ disk["p"]["requirement.js"].v.features = L(<<S("login"), S("signup")>>)

\* C7: merge is idempotent: once a merge (or append) update has been applied
\* to a structured document, applying the same update again leaves the stored
\* document as it is.
C7_MergeIdempotent ==
    (/\ step.op = "update_project_files" /\ step.status = "success"
     /\ ~endswith_md(step.args.file_type)
     /\ step.args.merge_strategy \in {"merge", "append"})
    => LET again == update_json_file(disk[step.args.project_name][step.args.file_type],
                                     step.args.file_type, Payload(step.args),
                                     step.args.merge_strategy)
       IN /\ again.ok
          /\ again.data = disk[step.args.project_name][step.args.file_type]

\* the nested update has been merged twice into the stored document
C7_Witness ==
    /\ step.op = "update_project_files" /\ step.status = "success"
    /\ step.args.merge_strategy = "merge"
    /\ step.args.update_data = nested_update
    /\ state_version[Host] = 2
    /\ current_project_data[Host].last_command = "update_project_files"
    /\ disk["p"]["requirement.js"].v.pages = L(<<D([id |-> I(1)]), D([id |-> I(2)])>>)

\* C8: an update_project_files command with strategy replace and an object
\* payload B for a structured document of an existing project succeeds,
\* stores exactly B and returns exactly B, whatever was stored.
C8_ReplaceStoresPayload ==
    [][ (/\ step'.op = "update_project_files"
         /\ step'.args.merge_strategy = "replace"
         /\ ~endswith_md(step'.args.file_type)
         /\ isinstance(step'.args.update_data, "dict"))
        => /\ step'.status = "success"
           /\ StoredAfter(step'.args) = step'.args.update_data
           /\ step'.ret = step'.args.update_data ]_vars

\* C9: for summary.md the strategies merge and append do what replace does,
\* for every payload: update_json_file has the same outcome, and a successful
\* command stores and returns the payload verbatim.
C9_TextMergeIsReplace ==
    /\ [](\A update_data \in MergePayloads, merge_strategy \in {"merge", "append"} :
            /\ update_json_file(disk["p"]["summary.md"], "summary.md", update_data,
                                merge_strategy)
               = update_json_file(disk["p"]["summary.md"], "summary.md", update_data,
                                  "replace")
            /\ isinstance(update_data, "str")
               => update_json_file(disk["p"]["summary.md"], "summary.md", update_data,
                                   merge_strategy).data = update_data)
    /\ [][ (/\ UpdateSucceeded
            /\ endswith_md(step'.args.file_type)
            /\ step'.args.merge_strategy \in {"merge", "append"})
           => /\ StoredAfter(step'.args) = step'.args.update_data
              /\ step'.ret = step'.args.update_data
              /\ current_project_data'[step'.proc].summary = step'.args.update_data ]_vars

C9_Witness ==
    /\ step.op = "update_project_files" /\ step.status = "success"
    /\ step.args.file_type = "summary.md"
    /\ step.args.merge_strategy = "append"
    /\ disk["p"]["summary.md"] = S("notes")
    /\ state_version[Host] = 2

\* C10: an update_project_files command whose strategy is none of replace,
\* merge, append returns an error and leaves every stored document as it was.
C10_UnknownStrategyRejected ==
    [][ (/\ step'.op = "update_project_files"
         /\ step'.args.merge_strategy \notin {"replace", "merge", "append"})
        => /\ step'.status = "error"
           /\ disk' = disk ]_vars

\* the payload of an update_project_files step does not have the type of the
\* document it addresses: no object for a .js file (a JSON string stands for
\* the value it encodes), no string for summary.md
TypeMismatch(args) ==
    IF endswith_md(args.file_type)
    THEN ~isinstance(args.update_data, "str")
    ELSE ~isinstance(Payload(args), "dict")

HubSubs == {"s1", "s2"}

\* the peer of a connection goes away: from now on send and ping on it raise
\* ConnectionClosed; the connection handler has not yet left its message loop
connection_closes(proc, websocket) ==
    /\ websocket \in connected_frontends[proc] \ closed_frontends[proc]
    /\ closed_frontends' = [closed_frontends EXCEPT ![proc] = @ \cup {websocket}]
    /\ step' = Result(proc, "close", [NoArgs EXCEPT !.websocket = websocket], "", None, <<>>)
    /\ Unchanged_shared
    /\ UNCHANGED <<state_version, current_project_data, bm_project_data,
                   last_known_version, connected_frontends, keep_alive_tasks,
                   websocket_server, background_tasks, pc, last_broadcast_data>>

\* one iteration of a connection's keep_alive loop after its sleep: a failing
\* ping, or a websocket no longer in connected_frontends, ends the loop
keep_alive(proc, websocket) ==
    /\ websocket \in keep_alive_tasks[proc]
    /\ IF websocket \in connected_frontends[proc]
       THEN IF websocket \in closed_frontends[proc]
            THEN /\ keep_alive_tasks' = [keep_alive_tasks EXCEPT ![proc] = @ \ {websocket}]
                 /\ step' = Result(proc, "keep_alive", [NoArgs EXCEPT !.websocket = websocket],
                                   "ping_failed", None, <<>>)
            ELSE /\ UNCHANGED keep_alive_tasks
                 /\ step' = Result(proc, "keep_alive", [NoArgs EXCEPT !.websocket = websocket],
                                   "pinged", None, <<>>)
       ELSE /\ keep_alive_tasks' = [keep_alive_tasks EXCEPT ![proc] = @ \ {websocket}]
            /\ step' = Result(proc, "keep_alive", [NoArgs EXCEPT !.websocket = websocket],
                              "ended", None, <<>>)
    /\ Unchanged_shared
    /\ UNCHANGED <<state_version, current_project_data, bm_project_data,
                   last_known_version, connected_frontends, closed_frontends,
                   websocket_server, background_tasks, pc, last_broadcast_data>>

NextHub ==
    \/ WithinBudget /\ \E project_name \in ProjectNames : handle_host_tool(Host, project_name)
    \/ WithinBudget /\ \E args \in SysUpdates : handle_update_project_files(Host, args)
    \/ \E websocket \in HubSubs : frontend_connects(Host, websocket)
    \/ \E websocket \in HubSubs : connection_closes(Host, websocket)
    \/ \E websocket \in HubSubs : keep_alive(Host, websocket)
    \/ \E websocket \in HubSubs : frontend_disconnects(Host, websocket)

SpecHub == Init /\ [][NextHub]_vars

\* C12: a broadcast with no connected subscriber sends nothing; otherwise it
\* sends to every connected subscriber and every one whose send does not fail
\* receives the event, however many of the others fail; the command that
\* broadcasts returns success and its State Store write stands.
C12_BroadcastIsolatesFailures ==
    [][ /\ connected_frontends[Host] = {} => step'.events = <<>>
        /\ \A i \in 1..Len(step'.events) :
              /\ step'.events[i].to = connected_frontends[Host]
              /\ connected_frontends[Host] \ closed_frontends[Host]
                    \subseteq step'.events[i].delivered
        /\ (step'.op \in {"host_tool", "update_project_files"}
              /\ state_version'[Host] # state_version[Host])
           => /\ step'.status = "success"
              /\ Len(step'.events) = (IF connected_frontends[Host] = {} THEN 0 ELSE 1) ]_vars

\* s1's send has failed and s2 has received the event
C12_Witness ==
    /\ step.op = "update_project_files" /\ step.status = "success"
    /\ Len(step.events) = 1
    /\ step.events[1].to = {"s1", "s2"}
    /\ step.events[1].delivered = {"s2"}

\* C13: a subscriber whose send fails during a broadcast, and no other, is
\* removed from connected_frontends by that broadcast, so that no later
\* broadcast is sent to it.
C13_FailedSendRemovesSubscriber ==
    [][ \A i \in 1..Len(step'.events) :
          connected_frontends'[Host]
             = connected_frontends[Host]
                  \ (step'.events[i].to \ step'.events[i].delivered) ]_vars

\* C14: when the ping of a connection's keep_alive loop fails, the websocket
\* is removed from connected_frontends.
C14_FailedPingUnregisters ==
    [][ (step'.op = "keep_alive" /\ step'.status = "ping_failed")
        => step'.args.websocket \notin connected_frontends'[Host] ]_vars

(***************************************************************************)
(* The command specification: the processes start on a filesystem an       *)
(* earlier run has left: project "p" on disk, named by the marker.  Process *)
(* "host" receives every command, with every fault of the filesystem;      *)
(* process "sibling" selects "p".                                          *)
(***************************************************************************)
CommandUpdates ==
    { UpdateArgs(n, "requirement.js", features_login, "merge") : n \in ProjectNames }

InitCommands ==
    /\ now = Epoch + 1
    /\ disk = [n \in {"p"} |->
                 [file_type \in VALID_FILE_TYPES |->
                     CASE file_type = "requirement.js" ->
                            D([project_name |-> S("p"), requirements |-> EmptyList,
                               user_flows |-> EmptyList, features |-> EmptyList,
                               pages |-> EmptyList, created_at |-> T(Epoch)])
                       [] file_type = "ddd.js" -> ddd_data
                       [] file_type = "frontend_data.js" -> frontend_data
                       [] file_type = "technical_architecture.js" -> technical_architecture_data
                       [] file_type = "summary.md" -> S("# p")]]
    /\ registry \in { [n \in {"p"} |-> [created_at |-> Epoch, last_updated |-> Epoch,
                                         status |-> "initialized"]],
                       <<>> }
    /\ marker = [present |-> TRUE, project_name |-> "p", timestamp |-> Epoch, version |-> Epoch]
    /\ state_version = [p \in Procs |-> 0]
    /\ current_project_data = [p \in Procs |-> empty_project_data]
    /\ bm_project_data = [p \in Procs |-> [k \in DocKeys \cup {"project_name"} |-> empty_project_data[k]]]
    /\ last_known_version = [p \in Procs |-> 0]
    /\ \E websockets \in SUBSET SysSubs :
          /\ connected_frontends = [p \in Procs |-> IF p = Host THEN websockets ELSE {}]
          /\ keep_alive_tasks = [p \in Procs |-> IF p = Host THEN websockets ELSE {}]
    /\ closed_frontends = [p \in Procs |-> {}]
    /\ websocket_server = [p \in Procs |-> "running"]
    /\ background_tasks = [p \in Procs |-> {"file_watcher", "periodic_broadcast"}]
    /\ pc = [p \in Procs |-> Idle]
    /\ last_broadcast_data = [p \in Procs |-> None]
    /\ step = Result("", "init", NoArgs, "", None, <<>>)

WithinCommands == SumVersions(Procs) < MaxCommands

NextCommands ==
    \/ WithinCommands /\ \E project_name \in ProjectNames :
                             handle_host_tool(Host, project_name)
    \/ WithinCommands /\ \E args \in CommandUpdates : handle_update_project_files(Host, args)
    \/ WithinCommands /\ \E project_name \in ProjectNames :
                             handle_select_project(Host, project_name)
    \/ WithinCommands /\ \E project_name \in ProjectNames, fault \in DeleteFaults :
                             handle_delete_project(Host, project_name, fault)
    \/ WithinCommands /\ handle_select_project("sibling", "p")

SpecCommands == InitCommands /\ [][NextCommands]_vars

\* the step just taken is a delete_project that passed its validation: the
\* project existed, the two removals were tried and their outcomes returned
DeleteAttempted ==
    /\ step'.op = "delete_project"
    /\ step'.args.project_name # ""
    /\ step'.args.project_name \in DOMAIN disk

\* C15: a delete_project of the project loaded in the process's State Store
\* that removed the directory or the registry entry clears the State Store
\* (project_name and every document empty), raises the version by exactly 1
\* and broadcasts one project_deleted event carrying the new version to all
\* connected subscribers.
C15_DeleteActiveClears ==
    [][ (/\ DeleteAttempted
         /\ current_project_data[step'.proc].project_name = step'.args.project_name
         /\ (step'.ret.folder_deleted \/ step'.ret.registry_updated))
        => /\ current_project_data'[step'.proc].project_name = ""
           /\ documents(current_project_data'[step'.proc]) = documents(empty_project_data)
           /\ state_version'[step'.proc] = state_version[step'.proc] + 1
           /\ current_project_data'[step'.proc].version
                 = current_project_data[step'.proc].version + 1
           /\ IF connected_frontends[step'.proc] = {}
              THEN step'.events = <<>>
              ELSE /\ Len(step'.events) = 1
                   /\ step'.events[1].type = "project_deleted"
                   /\ step'.events[1].has_version
                   /\ step'.events[1].version = state_version'[step'.proc]
                   /\ step'.events[1].to = connected_frontends[step'.proc] ]_vars

\* host created "q" and then deleted it, with a subscriber connected
C15_Witness ==
    /\ step.op = "delete_project" /\ step.status = "success"
    /\ step.args.project_name = "q"
    /\ state_version[Host] = 2 /\ state_version["sibling"] = 0
    /\ current_project_data[Host].project_name = ""
    /\ Len(step.events) = 1

\* C16: a delete_project of a project other than the one loaded in the
\* process's State Store leaves that State Store and the version as they
\* were and broadcasts no project_deleted event.
C16_DeleteOtherLeavesStateStore ==
    [][ (/\ DeleteAttempted
         /\ current_project_data[step'.proc].project_name # step'.args.project_name)
        => /\ current_project_data'[step'.proc] = current_project_data[step'.proc]
           /\ state_version'[step'.proc] = state_version[step'.proc]
           /\ \A i \in 1..Len(step'.events) :
                 step'.events[i].type # "project_deleted" ]_vars

\* C17: in delete_project the directory removal and the registry removal are
\* each carried out whatever the other does, and the returned folder_deleted
\* and registry_updated say what has become of the directory and of the
\* registry entry.
C17_DeleteReportsBothOutcomes ==
    [][ DeleteAttempted
        => LET project_name == step'.args.project_name
               in_registry == project_name \in DOMAIN registry
           IN /\ step'.ret.folder_deleted = (project_name \notin DOMAIN disk')
              /\ step'.ret.registry_updated
                    = (in_registry /\ project_name \notin DOMAIN registry')
              /\ (step'.args.fault = "folder" /\ in_registry)
                    => project_name \notin DOMAIN registry'
              /\ step'.args.fault = "registry"
                    => project_name \notin DOMAIN disk' ]_vars

\* C18: delete_project returns status success only when the directory and the
\* registry entry are both gone; when exactly one of them is gone the status
\* is not success and folder_deleted and registry_updated name which.
C18_NoPartialFailureAsSuccess ==
    [][ DeleteAttempted
        => LET project_name == step'.args.project_name
               folder_gone == project_name \notin DOMAIN disk'
               entry_gone == /\ project_name \in DOMAIN registry
                             /\ project_name \notin DOMAIN registry'
           IN /\ step'.status = "success" => (folder_gone /\ entry_gone)
              /\ (folder_gone # entry_gone)
                    => /\ step'.status \in {"partial_success", "error"}
                       /\ step'.ret = [folder_deleted |-> folder_gone,
                                       registry_updated |-> entry_gone] ]_vars

\* a structured value with nothing in it yet: every sequence in it is empty
RECURSIVE AllEmpty(_)
AllEmpty(value) ==
    IF value.t = "dict" THEN \A key \in DOMAIN value.v : AllEmpty(value.v[key])
    ELSE IF value.t = "list" THEN value.v = <<>>
    ELSE TRUE

\* C19: end to end.  host_tool on a fresh process gives version 1 and the
\* new project's documents, on disk and in the State Store, with empty
\* defaults; every merge update of requirement.js with {"features":
\* ["login"]} raises the version by 1 and leaves features exactly ["login"],
\* the first time (version 2) and when repeated (version 3).
C19_EndToEnd ==
    [][ /\ (step'.op = "host_tool" /\ step'.status = "success"
              /\ state_version[step'.proc] = 0)
           => /\ state_version'[step'.proc] = 1
              /\ current_project_data'[step'.proc].version = 1
              /\ current_project_data'[step'.proc].project_name = step'.args.project_name
              /\ \A file_type \in VALID_FILE_TYPES :
                    /\ current_project_data'[step'.proc][file_key(file_type)]
                          = disk'[step'.args.project_name][file_type]
                    /\ AllEmpty(disk'[step'.args.project_name][file_type])
        /\ (step'.op = "update_project_files" /\ step'.args \in CommandUpdates
              /\ project_exists(step'.args.project_name))
           => /\ step'.status = "success"
              /\ state_version'[step'.proc] = state_version[step'.proc] + 1
              /\ current_project_data'[step'.proc].version = state_version'[step'.proc]
              /\ StoredAfter(step'.args).v.features = L(<<S("login")>>)
              /\ current_project_data'[step'.proc].requirements.v.features
                    = L(<<S("login")>>)
              /\ step'.ret.v.features = L(<<S("login")>>) ]_vars

\* host has created "q" and merged the update into it twice: version 3
C19_Witness ==
    /\ step.op = "update_project_files" /\ step.status = "success"
    /\ step.args.project_name = "q"
    /\ state_version[Host] = 3 /\ state_version["sibling"] = 0
    /\ current_project_data[Host].version = 3
    /\ current_project_data[Host].project_name = "q"
    /\ current_project_data[Host].requirements.v.created_at = T(Epoch + 1)
    /\ marker.version = Epoch + 3
    /\ disk["q"]["requirement.js"].v.features = L(<<S("login")>>)
    /\ current_project_data[Host].requirements.v.features = L(<<S("login")>>)

\* C20: a select_project naming a project that does not exist returns an
\* error, leaves the State Store, the version, the marker and the registry as
\* they were and broadcasts nothing.
C20_SelectUnknownRejected ==
    [][ (step'.op = "select_project" /\ ~project_exists(step'.args.project_name))
        => /\ step'.status = "error"
           /\ step'.events = <<>>
           /\ UNCHANGED <<current_project_data, bm_project_data, state_version,
                          marker, registry, disk>> ]_vars

\* with "p" loaded and a subscriber connected, host has selected "q", which
\* was never created
C20_Witness ==
    /\ step.op = "select_project" /\ step.status = "error"
    /\ step.args.project_name = "q"
    /\ current_project_data[Host].project_name = "p"
    /\ state_version[Host] = 1 /\ state_version["sibling"] = 0
    /\ connected_frontends[Host] # {}

(***************************************************************************)
(* The synchronisation specification: two processes create projects, their *)
(* watchers poll the marker file, whose reads may fail, and subscribers    *)
(* connect and send client_ready.                                          *)
(***************************************************************************)
\* the registry's project with the greatest last_updated: max over the items
latest_projects ==
    {n \in DOMAIN registry :
        \A m \in DOMAIN registry : registry[m].last_updated <= registry[n].last_updated}

\* the handshake's response, sent to the one websocket
project_initialized(proc, websocket, project_name, files) ==
    [message("project_initialized", "", 0, T(now), project_name, event_data(files))
        EXCEPT !.has_version = FALSE,
               !.to = {websocket},
               !.delivered = {websocket} \ closed_frontends[proc]]

\* handle_frontend_connection, msg_type == "client_ready"
client_ready(proc, websocket) ==
    LET current_data == bm_project_data[proc]
        args == [NoArgs EXCEPT !.websocket = websocket]
    IN
    /\ websocket \in connected_frontends[proc] \ closed_frontends[proc]
    /\ UNCHANGED <<now, disk, registry, marker, state_version, current_project_data,
                   bm_project_data, last_known_version, connected_frontends,
                   closed_frontends, keep_alive_tasks, websocket_server,
                   background_tasks, pc, last_broadcast_data>>
    /\ IF current_data.project_name # ""
       THEN step' = Result(proc, "client_ready", args, "current", None,
                           <<project_initialized(proc, websocket,
                                                 current_data.project_name, current_data)>>)
       ELSE \/ /\ \A n \in latest_projects : ~loadable(n)
               /\ step' = Result(proc, "client_ready", args, "nothing", None, <<>>)
            \/ \E latest_project \in latest_projects :
                  /\ loadable(latest_project)
                  /\ step' = Result(proc, "client_ready", args, "fallback", None,
                                    <<project_initialized(proc, websocket, latest_project,
                                          read_project_files(latest_project))>>)

NextSync ==
    \/ /\ WithinBudget
       /\ \E proc \in Procs, project_name \in ProjectNames :
             handle_host_tool(proc, project_name)
    \/ \E proc \in Procs, fault \in MarkerReads : watch_current_project_file(proc, fault)
    \/ \E proc \in Procs, websocket \in SysSubs : frontend_connects(proc, websocket)
    \/ \E proc \in Procs, websocket \in SysSubs : client_ready(proc, websocket)

SpecSync == Init /\ [][NextSync]_vars

\* the process's watcher has adopted the marker that is now in the file
AdoptedMarker(proc) ==
    /\ marker.present
    /\ last_known_version[proc] = marker.version
    /\ loadable(marker.project_name)

\* C21: on client_ready the process sends that subscriber its current project state:
\* the State Store's project and documents when a project is active there, the most
\* recently updated registry project only when none is active; and once the process's
\* watcher has adopted the marker of project P, the subscriber receives project P
C21_HandshakeSendsCurrentState ==
    [][step'.op = "client_ready" =>
        LET proc == step'.proc
            held == current_project_data[proc]
        IN  /\ held.project_name # "" =>
                 /\ Len(step'.events) = 1
                 /\ step'.events[1].to = {step'.args.websocket}
                 /\ step'.events[1].project_name = held.project_name
                 /\ step'.events[1].data = event_data(held)
            /\ held.project_name = "" =>
                 \A i \in DOMAIN step'.events :
                    /\ step'.events[i].project_name \in latest_projects
                    /\ step'.events[i].data =
                          event_data(read_project_files(step'.events[i].project_name))
            /\ AdoptedMarker(proc) =>
                 /\ Len(step'.events) = 1
                 /\ step'.events[1].project_name = marker.project_name]_vars

\* C30: a watcher tick whose marker read fails changes nothing and sends nothing, the
\* watcher keeps running, and a tick that reads a marker newer than the last seen
\* version adopts it
C30_MarkerReadFailureSwallowed ==
    [][step'.op = "watch" =>
        LET proc == step'.proc
        IN  /\ "file_watcher" \in background_tasks'[proc]
            /\ step'.args.fault # "none" =>
                 /\ last_known_version' = last_known_version
                 /\ step'.events = <<>>
            /\ (step'.args.fault = "none" /\ marker.present
                  /\ marker.version > last_known_version[proc]) =>
                 /\ step'.status = "adopted"
                 /\ last_known_version'[proc] = marker.version]_vars

\* a failed read hid a marker newer than the version the watcher has seen
C30_Witness ==
    /\ step.op = "watch" /\ step.args.fault # "none"
    /\ marker.present /\ marker.version > last_known_version[step.proc]
    /\ "file_watcher" \in background_tasks[step.proc]

(***************************************************************************)
(* The session specification: process "host", started on a filesystem that *)
(* already holds project "p", receives every command of call_tool, with    *)
(* failing filesystem steps, while its background tasks run.               *)
(***************************************************************************)
\* the tools call_tool dispatches
Commands ==
    {"host_tool", "update_project_files", "get_project_data", "get_project_list",
     "select_project", "delete_project", "close_connection"}

\* the update commands of the session, with and without a failing marker write
SessionUpdates ==
    { [args EXCEPT !.fault = fault] :
        args \in CommandUpdates, fault \in {"none"} \cup MarkerWriteFaults }

handle_get_project_data(proc) ==
    /\ step' = Result(proc, "get_project_data", NoArgs,
                      IF current_project_data[proc].project_name = ""
                      THEN "no_project" ELSE "success",
                      documents(current_project_data[proc]), <<>>)
    /\ Unchanged_shared
    /\ Unchanged_process

\* get_all_projects returns the registry's projects; a registry file that cannot
\* be read raises, and the handler returns the error result
handle_get_project_list(proc, fault) ==
    /\ step' = Result(proc, "get_project_list", [NoArgs EXCEPT !.fault = fault],
                      IF fault = "registry" THEN "error" ELSE "success",
                      IF fault = "registry" THEN None ELSE DOMAIN registry, <<>>)
    /\ Unchanged_shared
    /\ Unchanged_process

\* the status stop_react_server returns
ReactStops == {"stopped", "not_running", "error"}

\* stop_websocket_server: closes and forgets every client, then closes the server;
\* raised is an exception from closing the server
stop_websocket_server(proc, raised) ==
    [status |-> IF raised THEN "error"
                ELSE IF websocket_server[proc] = "running" THEN "stopped"
                ELSE "not_running",
     websocket_server |-> IF raised THEN websocket_server[proc] ELSE "stopped"]

\* finished are the connections whose handler left its message loop and ran its
\* finally block while stop_websocket_server awaited the closing of all clients;
\* the handlers of the others run theirs after connected_frontends.clear()
handle_close_connection(proc, react_status, raised, finished) ==
    LET ws_result == stop_websocket_server(proc, raised)
        overall_status == IF /\ react_status \in {"stopped", "not_running"}
                             /\ ws_result.status \in {"stopped", "not_running"}
                          THEN "success" ELSE "partial"
    IN
    /\ connected_frontends' = [connected_frontends EXCEPT ![proc] = {}]
    /\ closed_frontends' = [closed_frontends EXCEPT
                              ![proc] = connected_frontends[proc] \ finished]
    /\ keep_alive_tasks' = [keep_alive_tasks EXCEPT ![proc] = @ \ finished]
    /\ websocket_server' = [websocket_server EXCEPT ![proc] = ws_result.websocket_server]
    /\ step' = Result(proc, "close_connection", NoArgs, overall_status,
                      [react_server |-> react_status, websocket_server |-> ws_result.status],
                      <<>>)
    /\ Unchanged_shared
    /\ UNCHANGED <<state_version, current_project_data, bm_project_data,
                   last_known_version, background_tasks, pc, last_broadcast_data>>

NextSession ==
    \/ WithinBudget /\ \E project_name \in ProjectNames :
                             handle_host_tool(Host, project_name)
    \/ WithinBudget /\ \E args \in SessionUpdates : handle_update_project_files(Host, args)
    \/ WithinBudget /\ \E project_name \in ProjectNames :
                             handle_select_project(Host, project_name)
    \/ WithinBudget /\ \E project_name \in ProjectNames,
                            fault \in DeleteFaults \cup MarkerWriteFaults :
                             handle_delete_project(Host, project_name, fault)
    \/ handle_get_project_data(Host)
    \/ \E fault \in {"none", "registry"} : handle_get_project_list(Host, fault)
    \/ \E react_status \in ReactStops, raised \in BOOLEAN,
          finished \in SUBSET connected_frontends[Host] :
          handle_close_connection(Host, react_status, raised, finished)
    \/ watch_current_project_file(Host, "none")
    \/ periodic_broadcast(Host)
    \/ \E websocket \in SysSubs : frontend_connects(Host, websocket)
    \/ \E websocket \in SysSubs : keep_alive(Host, websocket)
    \/ \E websocket \in SysSubs : frontend_disconnects(Host, websocket)

SpecSession == InitCommands /\ [][NextSession]_vars

\* C23: every command returns a result whose status is one of success, error,
\* partial_success, no_project
C23_StatusIsOneOfFour ==
    [][step'.op \in Commands =>
          step'.status \in {"success", "error", "partial_success", "no_project"}]_vars

\* C25: whatever internal step fails, a command handler returns a result; no
\* exception leaves the handler
C25_NoExceptionEscapes ==
    [][step'.op \in Commands => step'.status # "raised"]_vars

\* C26: once close_connection has stopped the process's servers, its watcher, its
\* periodic broadcast and its keep_alive tasks take no further step
C26_BackgroundTasksStopOnShutdown ==
    [][websocket_server[Host] = "stopped" =>
          ~(step'.proc = Host /\ step'.op \in {"watch", "periodic", "keep_alive"})]_vars

(***************************************************************************)
(* The editing specification: process "host", started on a filesystem that *)
(* already holds project "p", selects it; its subscribers send structural  *)
(* edits of frontend_data.js over their connections.                       *)
(***************************************************************************)
\* the number of clock ticks after Epoch up to which subscribers send edits
MaxNow == 4

EditOps == {"page_delete", "page_add", "page_rename", "page_duplicate", "canvas_edit"}

\* f"PAGE-FE-{int(datetime.now().timestamp() * 1000)}"
new_page_id == S("PAGE-FE-" \o ToString(now))

\* page_data.get("name", "New Page")
PageNames == {S("Home"), None}
page_name_of(name) == IF name = None THEN S("New Page") ELSE name

\* f"/{page_name.lower().replace(' ', '-')}" for the names above
route(page_name) ==
    CASE page_name = S("Home") -> S("/home")
      [] page_name = S("New Page") -> S("/new-page")

new_page(page_name) ==
    D([id |-> new_page_id, name |-> page_name, route |-> route(page_name),
       layout |-> S("MainLayout"), icon |-> S("page"), components |-> EmptyList,
       canvas |-> D([width |-> I(1400), height |-> I(900),
                     backgroundColor |-> S("#ffffff")]),
       sections |-> EmptyList])

\* the page ids a subscriber may name: those of the stored document, one that no
\* page has, and none
PageIds(project_name) ==
    LET frontend_doc == disk[project_name]["frontend_data.js"]
    IN  {S("PAGE-FE-0"), None}
        \cup (IF "pages" \in DOMAIN frontend_doc.v
              THEN {frontend_doc.v.pages.v[i].v.id : i \in DOMAIN frontend_doc.v.pages.v}
              ELSE {})

component_c1 == D([id |-> S("c1"), type |-> S("button")])
updates_c1 == D([type |-> S("input")])
CanvasActions == {"add_component", "update_component", "delete_component"}

\* frontend_data["pages"] = pages
with_pages(frontend_doc, pages) ==
    D([k \in DOMAIN frontend_doc.v \cup {"pages"} |->
          IF k = "pages" THEN L(pages) ELSE frontend_doc.v[k]])

\* page[key] = value
with_key(page, key, value) ==
    D([k \in DOMAIN page.v \cup {key} |-> IF k = key THEN value ELSE page.v[k]])

\* the message of a structural edit: "type" and "data" only
edit_response(type, pages, currentPageId) ==
    [message(type, "", 0, None, "", [pages |-> L(pages), currentPageId |-> currentPageId])
        EXCEPT !.has_version = FALSE]

edit_args(project_name, websocket, payload, raised) ==
    [NoArgs EXCEPT !.project_name = project_name, !.websocket = websocket,
                   !.update_data = D(payload),
                   !.fault = IF raised THEN "write" ELSE "none"]

\* `continue`, or a page that is not found: nothing is read back or sent
edit_skipped(proc, type, args) ==
    /\ step' = Result(proc, type, args, "skipped", None, <<>>)
    /\ Unchanged_shared
    /\ Unchanged_process

\* faulty variant: the response is broadcast whether or not the write succeeded
BroadcastRegardless(proc, raised, response) == broadcast_to_frontends(proc, response)

\* the try block of an edit: the broadcast follows update_json_file and is
\* skipped when that raises
broadcast_after_write(proc, raised, response) ==
    IF raised THEN <<>> ELSE broadcast_to_frontends(proc, response)

\* try: update_json_file(project_name, "frontend_data.js", frontend_data, "replace")
\* and the broadcast; raised is an exception of the write
save_and_broadcast(proc, type, args, project_name, frontend_doc, currentPageId, raised) ==
    LET outcome == update_json_file(disk[project_name]["frontend_data.js"],
                                    "frontend_data.js", frontend_doc, "replace")
        written == ~raised /\ outcome.ok
        response == edit_response(type, frontend_doc.v.pages.v, currentPageId)
    IN
    /\ disk' = IF written
               THEN [disk EXCEPT ![project_name]["frontend_data.js"] = outcome.data]
               ELSE disk
    /\ now' = now + 1
    /\ step' = Result(proc, type, args, IF written THEN "saved" ELSE "write_failed",
                      frontend_doc, broadcast_after_write(proc, ~written, response))
    /\ UNCHANGED <<registry, marker>>
    /\ Unchanged_process

\* faulty variant: the edit works on the copy of the document the process loaded
\* when the project became current
loaded_frontend_data(proc, project_name) == bm_project_data[proc].frontend_data

\* project_files = read_project_files(project_name) and
\* frontend_data = project_files["frontend_data"]: every edit reads the document
\* from its file when it handles its message, and no await lies between this read
\* and update_json_file
stored_frontend_data(proc, project_name) == read_project_files(project_name).frontend_data

\* a message arrives on an open connection of the process
receives(proc, websocket) ==
    /\ websocket \in connected_frontends[proc] \ closed_frontends[proc]
    /\ now < Epoch + MaxNow

page_delete(proc, websocket, page_id, raised) ==
    LET project_name == bm_project_data[proc].project_name
        args == edit_args(project_name, websocket, [pageId |-> page_id], raised)
        frontend_doc == stored_frontend_data(proc, project_name)
        original_pages == frontend_doc.v.pages.v
        keeps(p) == p.v.id # page_id
        updated_pages == SelectSeq(original_pages, keeps)
    IN
    /\ receives(proc, websocket)
    /\ IF \/ project_name = "" \/ page_id = None
          \/ ~project_exists(project_name)
          \/ "pages" \notin DOMAIN frontend_doc.v
          \/ Len(updated_pages) = Len(original_pages)
       THEN edit_skipped(proc, "page_delete", args)
       ELSE save_and_broadcast(proc, "page_delete", args, project_name,
                               with_pages(frontend_doc, updated_pages),
                               IF updated_pages # <<>> THEN updated_pages[1].v.id ELSE None,
                               raised)

page_add(proc, websocket, name, raised) ==
    LET project_name == bm_project_data[proc].project_name
        args == edit_args(project_name, websocket, [name |-> name], raised)
        frontend_doc == stored_frontend_data(proc, project_name)
        pages == IF "pages" \in DOMAIN frontend_doc.v THEN frontend_doc.v.pages.v ELSE <<>>
        page == new_page(page_name_of(name))
    IN
    /\ receives(proc, websocket)
    /\ IF project_name = "" \/ ~project_exists(project_name)
       THEN edit_skipped(proc, "page_add", args)
       ELSE save_and_broadcast(proc, "page_add", args, project_name,
                               with_pages(frontend_doc, Append(pages, page)),
                               page.v.id, raised)

page_rename(proc, websocket, page_id, new_name, raised) ==
    LET project_name == bm_project_data[proc].project_name
        args == edit_args(project_name, websocket,
                          [pageId |-> page_id, newName |-> new_name], raised)
        frontend_doc == stored_frontend_data(proc, project_name)
        pages == frontend_doc.v.pages.v
        found == {i \in DOMAIN pages : pages[i].v.id = page_id}
        first == CHOOSE i \in found : \A j \in found : i <= j
        renamed == [pages EXCEPT ![first] = with_key(@, "name", new_name)]
    IN
    /\ receives(proc, websocket)
    /\ IF \/ project_name = "" \/ page_id = None \/ new_name = None
          \/ ~project_exists(project_name)
          \/ "pages" \notin DOMAIN frontend_doc.v
          \/ found = {}
       THEN edit_skipped(proc, "page_rename", args)
       ELSE save_and_broadcast(proc, "page_rename", args, project_name,
                               with_pages(frontend_doc, renamed), None, raised)

page_duplicate(proc, websocket, page_id, raised) ==
    LET project_name == bm_project_data[proc].project_name
        args == edit_args(project_name, websocket, [pageId |-> page_id], raised)
        frontend_doc == stored_frontend_data(proc, project_name)
        pages == frontend_doc.v.pages.v
        found == {i \in DOMAIN pages : pages[i].v.id = page_id}
        source_page == pages[CHOOSE i \in found : \A j \in found : i <= j]
        copy == with_key(with_key(source_page, "id", new_page_id),
                         "name", S(source_page.v.name.v \o " (Copy)"))
    IN
    /\ receives(proc, websocket)
    /\ IF \/ project_name = "" \/ page_id = None
          \/ ~project_exists(project_name)
          \/ "pages" \notin DOMAIN frontend_doc.v
          \/ found = {}
       THEN edit_skipped(proc, "page_duplicate", args)
       ELSE save_and_broadcast(proc, "page_duplicate", args, project_name,
                               with_pages(frontend_doc, Append(pages, copy)),
                               copy.v.id, raised)

\* page["components"] after the action
edited_components(components, action) ==
    LET is_c1(c) == c.v.id = S("c1")
        not_c1(c) == c.v.id # S("c1")
        hits == {i \in DOMAIN components : is_c1(components[i])}
        first == CHOOSE i \in hits : \A j \in hits : i <= j
    IN  CASE action = "add_component" -> Append(components, component_c1)
          [] action = "update_component" ->
                IF hits = {} THEN components
                ELSE [components EXCEPT ![first] = deep_merge_dict(@, updates_c1)]
          [] action = "delete_component" -> SelectSeq(components, not_c1)

canvas_edit(proc, websocket, project_name, page_id, action, raised) ==
    LET args == edit_args(project_name, websocket,
                          [pageId |-> page_id, action |-> S(action)], raised)
        frontend_doc == stored_frontend_data(proc, project_name)
        pages == frontend_doc.v.pages.v
        found == {i \in DOMAIN pages : pages[i].v.id = page_id}
        page_index == CHOOSE i \in found : \A j \in found : i <= j
        page == pages[page_index]
        components == IF "components" \in DOMAIN page.v THEN page.v.components.v ELSE <<>>
        edited == with_key(page, "components", L(edited_components(components, action)))
    IN
    /\ receives(proc, websocket)
    /\ IF \/ project_name = "" \/ page_id = None
          \/ ~project_exists(project_name)
          \/ "pages" \notin DOMAIN frontend_doc.v
          \/ found = {}
       THEN edit_skipped(proc, "canvas_edit", args)
       ELSE save_and_broadcast(proc, "canvas_edit", args, project_name,
                               with_pages(frontend_doc, [pages EXCEPT ![page_index] = edited]),
                               None, raised)

\* the page ids and project names the subscribers of the process send
SentPageIds(proc) ==
    IF loadable(bm_project_data[proc].project_name)
    THEN PageIds(bm_project_data[proc].project_name)
    ELSE {S("PAGE-FE-0"), None}

SentCanvasPageIds(project_name) ==
    IF loadable(project_name) THEN PageIds(project_name) ELSE {S("PAGE-FE-0"), None}

NextEdit ==
    \/ WithinBudget /\ \E project_name \in ProjectNames :
                           handle_select_project(Host, project_name)
    \/ WithinBudget /\ \E args \in CommandUpdates : handle_update_project_files(Host, args)
    \/ \E websocket \in HubSubs : frontend_connects(Host, websocket)
    \/ \E websocket \in HubSubs, page_id \in SentPageIds(Host), raised \in BOOLEAN :
          page_delete(Host, websocket, page_id, raised)
    \/ \E websocket \in HubSubs, name \in PageNames, raised \in BOOLEAN :
          page_add(Host, websocket, name, raised)
    \/ \E websocket \in HubSubs, page_id \in SentPageIds(Host), new_name \in PageNames,
          raised \in BOOLEAN :
          page_rename(Host, websocket, page_id, new_name, raised)
    \/ \E websocket \in HubSubs, page_id \in SentPageIds(Host), raised \in BOOLEAN :
          page_duplicate(Host, websocket, page_id, raised)
    \/ \E websocket \in HubSubs, project_name \in ProjectNames \cup {""},
          action \in CanvasActions, raised \in BOOLEAN :
          \E page_id \in SentCanvasPageIds(project_name) :
             canvas_edit(Host, websocket, project_name, page_id, action, raised)

SpecEdit == InitCommands /\ [][NextEdit]_vars

\* C27: every successful write of a project document, by update_project_files or by
\* a structural edit, also sets the project's registry entry: last_updated to the
\* time of the write and status to "updated"
C27_DocumentWriteUpdatesRegistry ==
    [][(\/ step'.op = "update_project_files" /\ step'.status = "success"
        \/ step'.op \in EditOps /\ step'.status = "saved") =>
          /\ step'.args.project_name \in DOMAIN registry'
          /\ registry'[step'.args.project_name].last_updated = now
          /\ registry'[step'.args.project_name].status = "updated"]_vars

\* the stored frontend document of the project has a page of that id
HasPage(project_name, page_id) ==
    /\ loadable(project_name)
    /\ "pages" \in DOMAIN disk[project_name]["frontend_data.js"].v
    /\ \E i \in DOMAIN disk[project_name]["frontend_data.js"].v.pages.v :
          disk[project_name]["frontend_data.js"].v.pages.v[i].v.id = page_id

\* what the edit of that type and payload makes of the pages
EditApplied(op, payload, before, after) ==
    LET ids(pages) == {pages[i].v.id : i \in DOMAIN pages}
        others(pages) == {pages[i] : i \in {j \in DOMAIN pages : pages[j].v.id # payload.pageId}}
    IN  CASE op = "page_add" ->
               /\ Len(after) = Len(before) + 1
               /\ SubSeq(after, 1, Len(before)) = before
               /\ after[Len(after)].v.name = page_name_of(payload.name)
               /\ after[Len(after)].v.components = EmptyList
               /\ after[Len(after)].v.id \notin ids(before)
          [] op = "page_delete" ->
               /\ payload.pageId \notin ids(after)
               /\ Len(after) < Len(before)
               /\ others(after) = others(before)
          [] op = "page_rename" ->
               /\ Len(after) = Len(before)
               /\ \E i \in DOMAIN before :
                     /\ before[i].v.id = payload.pageId
                     /\ after[i].v.name = payload.newName
                     /\ \A k \in DOMAIN before[i].v \ {"name"} : after[i].v[k] = before[i].v[k]
                     /\ \A j \in DOMAIN before \ {i} : after[j] = before[j]
          [] op = "page_duplicate" ->
               /\ Len(after) = Len(before) + 1
               /\ SubSeq(after, 1, Len(before)) = before
               /\ after[Len(after)].v.id \notin ids(before)
               /\ \E i \in DOMAIN before :
                     /\ before[i].v.id = payload.pageId
                     /\ after[Len(after)].v.name = S(before[i].v.name.v \o " (Copy)")
                     /\ \A k \in DOMAIN before[i].v \ {"name", "id"} :
                           after[Len(after)].v[k] = before[i].v[k]
          [] op = "canvas_edit" ->
               /\ Len(after) = Len(before)
               /\ others(after) = others(before)
               /\ \A i \in DOMAIN before :
                     /\ after[i].v.id = before[i].v.id
                     /\ after[i].v.name = before[i].v.name

\* C29: a structural edit that applies loads the stored document, changes its pages,
\* writes the whole document back by replace and then broadcasts the new pages to
\* every registered subscriber; when the write fails the document is unchanged and
\* nothing is broadcast
C29_EditWritesThenBroadcasts ==
    [][step'.op \in EditOps =>
        LET proc == step'.proc
            op == step'.op
            project_name == step'.args.project_name
            payload == step'.args.update_data.v
            before == disk[project_name]["frontend_data.js"]
            after == disk'[project_name]["frontend_data.js"]
            applies ==
                CASE op = "page_add" -> loadable(project_name)
                  [] op = "page_rename" ->
                        HasPage(project_name, payload.pageId) /\ payload.newName # None
                  [] OTHER -> HasPage(project_name, payload.pageId)
        IN  /\ applies <=> step'.status \in {"saved", "write_failed"}
            /\ step'.status = "saved" <=> (applies /\ step'.args.fault = "none")
            /\ step'.status = "saved" =>
                 /\ after = step'.ret
                 /\ \A k \in DOMAIN before.v \ {"pages"} :
                       k \in DOMAIN after.v /\ after.v[k] = before.v[k]
                 /\ \A n \in DOMAIN disk, f \in VALID_FILE_TYPES :
                       (n # project_name \/ f # "frontend_data.js") => disk'[n][f] = disk[n][f]
                 /\ EditApplied(op, payload,
                                IF "pages" \in DOMAIN before.v THEN before.v.pages.v ELSE <<>>,
                                after.v.pages.v)
                 /\ IF connected_frontends[proc] = {} THEN step'.events = <<>>
                    ELSE /\ Len(step'.events) = 1
                         /\ step'.events[1].to = connected_frontends[proc]
                         /\ step'.events[1].delivered = connected_frontends[proc]
                         /\ step'.events[1].data.pages = after.v.pages
            /\ step'.status # "saved" =>
                 /\ disk' = disk
                 /\ step'.events = <<>>]_vars

\* a saved page_delete whose event went to two subscribers
C29_Witness ==
    /\ step.op = "page_delete" /\ step.status = "saved"
    /\ Len(step.events) = 1
    /\ Cardinality(step.events[1].delivered) = 2
    /\ step.events[1].data.pages = disk[step.args.project_name]["frontend_data.js"].v.pages

(***************************************************************************)
(* The ordering specification: process "host" runs host_tool and           *)
(* update_project_files statement by statement while the watcher of        *)
(* process "sibling" polls the marker file.                                *)
(***************************************************************************)
\* faulty variant: the marker is written first
MarkerFirst(op) ==
    IF op = "host_tool"
    THEN <<"write_marker", "write_document", "update_registry", "bump_version", "broadcast">>
    ELSE <<"write_marker", "write_document", "bump_version", "update_registry", "broadcast">>

\* the statements of a successful command in the order the handler runs them
command_steps(op) ==
    IF op = "host_tool"
    THEN <<"write_document", "update_registry", "bump_version", "write_marker", "broadcast">>
    ELSE <<"write_document", "bump_version", "write_marker", "update_registry", "broadcast">>

\* the handler has passed its validation and is about to run its first statement
start_command(proc, op, args) ==
    /\ pc[proc] = Idle
    /\ args.project_name \in ProjectNames
    /\ IF op = "host_tool" THEN ~project_exists(args.project_name)
       ELSE /\ project_exists(args.project_name)
            /\ update_json_file(disk[args.project_name][args.file_type], args.file_type,
                                args.update_data, args.merge_strategy).ok
    /\ pc' = [pc EXCEPT ![proc] =
                [at |-> 1, op |-> op, args |-> args, data |-> empty_project_data,
                 started |-> [state_version |-> state_version[proc], now |-> now,
                              document |-> IF op = "host_tool" THEN None
                                           ELSE disk[args.project_name][args.file_type]]]]
    /\ step' = Result(proc, op, args, "started", None, <<>>)
    /\ Unchanged_shared
    /\ UNCHANGED <<state_version, current_project_data, bm_project_data,
                   last_known_version, connected_frontends, closed_frontends,
                   keep_alive_tasks, websocket_server, background_tasks,
                   last_broadcast_data>>

\* the next statement of the command the process is running
command_step(proc) ==
    LET c == pc[proc]
        op == c.op
        args == c.args
        project_name == args.project_name
        statement == command_steps(op)[c.at]
        files == new_project_files(project_name)
        data == IF op = "host_tool"
                THEN [project_name |-> project_name,
                      requirements |-> files["requirement.js"],
                      ddd |-> files["ddd.js"],
                      frontend_data |-> files["frontend_data.js"],
                      technical_architecture |-> files["technical_architecture.js"],
                      summary |-> files["summary.md"],
                      version |-> NextVersion(state_version[proc]),
                      last_updated |-> T(now),
                      last_command |-> "host_tool"]
                ELSE [current_project_data[proc] EXCEPT
                         ![file_key(args.file_type)] =
                             update_json_file(c.started.document, args.file_type,
                                              args.update_data, args.merge_strategy).data,
                         !.project_name = project_name,
                         !.version = NextVersion(state_version[proc]),
                         !.last_updated = T(now),
                         !.last_command = "update_project_files"]
        previous_project == current_project_data[proc].project_name
        broadcast_message ==
            IF op = "host_tool"
            THEN message("project_initialized", "host_tool", c.data.version,
                         c.data.last_updated, project_name, event_data(c.data))
            ELSE message("files_updated", "update_project_files", c.data.version,
                         c.data.last_updated, project_name, event_data(c.data))
    IN
    /\ c.at > 0
    /\ disk' = IF statement # "write_document" THEN disk
               ELSE IF op = "host_tool"
               THEN [n \in DOMAIN disk \cup {project_name} |->
                       IF n = project_name THEN files ELSE disk[n]]
               ELSE [disk EXCEPT ![project_name][args.file_type] =
                        update_json_file(@, args.file_type, args.update_data,
                                         args.merge_strategy).data]
    /\ registry' = IF statement # "update_registry" THEN registry
                   ELSE IF op = "host_tool"
                   THEN update_project_registry(project_name,
                           [created_at |-> now, last_updated |-> now,
                            status |-> "initialized"])
                   ELSE update_project_registry(project_name,
                           [last_updated |-> now, status |-> "updated"])
    /\ IF statement = "bump_version"
       THEN /\ state_version' = [state_version EXCEPT ![proc] = data.version]
            /\ current_project_data' = [current_project_data EXCEPT ![proc] = data]
            /\ bm_project_data' = [bm_project_data EXCEPT
                                     ![proc] = set_current_project_data(@, data)]
       ELSE UNCHANGED <<state_version, current_project_data, bm_project_data>>
    /\ IF statement = "write_marker"
       THEN marker' = write_current_project(project_name) /\ now' = now + 1
       ELSE UNCHANGED <<marker, now>>
    /\ IF statement = "broadcast"
       THEN /\ pc' = [pc EXCEPT ![proc] = Idle]
            /\ step' = Result(proc, op, args, "success", None,
                              broadcast_to_frontends(proc, broadcast_message))
       ELSE /\ pc' = [pc EXCEPT ![proc] =
                        [c EXCEPT !.at = @ + 1,
                                  !.data = IF statement = "bump_version" THEN data ELSE @]]
            /\ step' = Result(proc, op, args, statement, None, <<>>)
    /\ UNCHANGED <<last_known_version, connected_frontends, closed_frontends,
                   keep_alive_tasks, websocket_server, background_tasks,
                   last_broadcast_data>>

NextOrder ==
    \/ WithinBudget /\ \E project_name \in ProjectNames :
          start_command(Host, "host_tool", [NoArgs EXCEPT !.project_name = project_name])
    \/ WithinBudget /\ \E args \in CommandUpdates :
          start_command(Host, "update_project_files", args)
    \/ command_step(Host)
    \/ watch_current_project_file("sibling", "none")
    \/ \E proc \in Procs, websocket \in SysSubs : frontend_connects(proc, websocket)

SpecOrder == InitCommands /\ [][NextOrder]_vars

\* the command's document write has happened
Written(c) ==
    /\ project_exists(c.args.project_name)
    /\ IF c.op = "host_tool"
       THEN TRUE   \* the project did not exist when the command started
       ELSE disk[c.args.project_name][c.args.file_type] =
               update_json_file(c.started.document, c.args.file_type,
                                c.args.update_data, c.args.merge_strategy).data

\* the command's State Store assignments have happened
Bumped(proc, c) ==
    /\ state_version[proc] = c.started.state_version + 1
    /\ current_project_data[proc].project_name = c.args.project_name
    /\ current_project_data[proc].version = state_version[proc]

\* the command's marker write has happened
Marked(c) ==
    /\ marker.present
    /\ marker.project_name = c.args.project_name
    /\ marker.version >= c.started.now

\* C28: a successful local mutation writes the Document Store, then bumps the State
\* Store version, then rewrites the marker, then broadcasts to its subscribers; a
\* sibling's watcher rebroadcasts the change only after the marker was rewritten,
\* hence after the document write and the bump
C28_MutationOrder ==
    [][/\ (step'.proc = Host /\ pc[Host].at > 0) =>
            /\ step'.status = "bump_version" => Written(pc[Host])
            /\ step'.status = "write_marker" => Written(pc[Host]) /\ Bumped(Host, pc[Host])
            /\ step'.status = "success" =>
                  /\ Written(pc[Host]) /\ Bumped(Host, pc[Host]) /\ Marked(pc[Host])
                  /\ \A i \in DOMAIN step'.events :
                        /\ step'.events[i].version = state_version[Host]
                        /\ \A k \in EventKeys :
                              (pc[Host].op = "host_tool"
                                 \/ k = file_key(pc[Host].args.file_type)) =>
                              step'.events[i].data[k] =
                                 read_project_files(pc[Host].args.project_name)[k]
       /\ (step'.proc = "sibling" /\ step'.op = "watch" /\ step'.status = "adopted"
             /\ pc[Host].at > 0 /\ marker.version >= pc[Host].started.now) =>
            /\ Marked(pc[Host])
            /\ Written(pc[Host]) /\ Bumped(Host, pc[Host])]_vars

\* the sibling's watcher rebroadcasts the host's change between the host's marker
\* write and the host's own broadcast
C28_Witness ==
    /\ step.proc = "sibling" /\ step.op = "watch" /\ step.status = "adopted"
    /\ step.events # <<>>
    /\ pc[Host].at > 0 /\ pc[Host].op = "update_project_files"
    /\ Marked(pc[Host]) /\ Written(pc[Host]) /\ Bumped(Host, pc[Host])

(***************************************************************************)
(* Further properties of the command specification                         *)
(***************************************************************************)
RegistryEntryKeys == {"created_at", "last_updated", "status"}

\* C40: every entry of the registry has created_at, last_updated and status, and an
\* update_project_files that succeeds sets last_updated and status of the project's
\* entry and keeps its created_at
C40_RegistryEntryComplete ==
    [][/\ \A n \in DOMAIN registry' : RegistryEntryKeys \subseteq DOMAIN registry'[n]
       /\ (/\ step'.op = "update_project_files" /\ step'.status = "success"
           /\ step'.args.project_name \in DOMAIN registry) =>
             /\ registry'[step'.args.project_name].last_updated = now
             /\ registry'[step'.args.project_name].status = "updated"
             /\ registry'[step'.args.project_name].created_at =
                   registry[step'.args.project_name].created_at]_vars

\* C34: a command that returns status error has changed nothing: Document Store,
\* registry, State Store, version and marker are as before, and no event was sent
C34_ErrorChangesNothing ==
    [][(step'.op \in Commands /\ step'.status = "error") =>
          /\ disk' = disk
          /\ registry' = registry
          /\ marker' = marker
          /\ state_version' = state_version
          /\ current_project_data' = current_project_data
          /\ step'.events = <<>>]_vars

(***************************************************************************)
(* The creation specification: both processes receive host_tool with names *)
(* that pass and names that fail its validation.                           *)
(***************************************************************************)
CreateNames == ProjectNames \cup {"", "a_b", "a-b", "_"}

NextCreate ==
    \/ WithinBudget /\ \E proc \in Procs, project_name \in CreateNames :
                           handle_host_tool(proc, project_name)
    \/ \E proc \in Procs, websocket \in SysSubs : frontend_connects(proc, websocket)

SpecCreate == Init /\ [][NextCreate]_vars

\* C32: host_tool with a name that is empty, has a character other than letters,
\* digits and underscore, or names an existing project returns status error, changes
\* none of Document Store, registry, State Store, version and marker, and sends nothing
C32_InvalidCreateRejected ==
    [][(/\ step'.op = "host_tool"
        /\ \/ step'.args.project_name = ""
           \/ \E i \in DOMAIN characters(step'.args.project_name) :
                 characters(step'.args.project_name)[i] \notin Alnum \cup {"_"}
           \/ project_exists(step'.args.project_name)) =>
          /\ step'.status = "error"
          /\ step'.events = <<>>
          /\ UNCHANGED <<disk, registry, marker, state_version, current_project_data,
                         bm_project_data>>]_vars

\* a name with a hyphen was refused while a project was loaded and a subscriber
\* connected
C32_Witness ==
    /\ step.op = "host_tool" /\ step.args.project_name = "a-b" /\ step.status = "error"
    /\ current_project_data[step.proc].project_name # ""
    /\ connected_frontends[step.proc] # {}

\* C33: an update_project_files addressed to a project other than the one loaded
\* leaves the State Store, and the event it broadcasts, holding documents of the
\* project it names, none left over from the project loaded before
C33_StateStoreHoldsOneProject ==
    [][(/\ step'.op = "update_project_files" /\ step'.status = "success"
        /\ current_project_data[step'.proc].project_name # ""
        /\ current_project_data[step'.proc].project_name # step'.args.project_name) =>
          LET held == current_project_data'[step'.proc]
              stored == [k \in DocKeys |->
                           disk'[step'.args.project_name]
                                [CHOOSE f \in VALID_FILE_TYPES : file_key(f) = k]]
          IN  /\ held.project_name = step'.args.project_name
              /\ \A k \in DocKeys : held[k] = stored[k]
              /\ \A i \in DOMAIN step'.events :
                    \A k \in EventKeys : step'.events[i].data[k] = stored[k]]_vars

(***************************************************************************)
(* Further properties of the system specification                          *)
(***************************************************************************)
\* C35: the versions carried by the events a subscriber of one process receives one
\* after the other never decrease, whether a command handler or the watcher sent them
C35_EventVersionsNeverDecrease ==
    [][\A i \in DOMAIN step.events, j \in DOMAIN step'.events :
          (/\ step.proc = step'.proc
           /\ step.events[i].has_version /\ step'.events[j].has_version
           /\ step.events[i].delivered \cap step'.events[j].delivered # {}) =>
             step.events[i].version <= step'.events[j].version]_vars

\* the marker in the file was written by the last command of this process
OwnMarker(proc) ==
    /\ marker.present
    /\ current_project_data[proc].last_updated = T(marker.timestamp)

\* C36: a change made by a command of this process reaches its subscribers once: when
\* a command has announced a change to a subscriber, the watcher tick of the same
\* process that follows sends that subscriber no second event for the marker the
\* command wrote
C36_OwnMarkerNotRebroadcast ==
    [][(/\ step.op \in {"host_tool", "update_project_files", "select_project"}
        /\ step.status = "success"
        /\ OwnMarker(step.proc)
        /\ step'.op = "watch" /\ step'.proc = step.proc) =>
          \A i \in DOMAIN step.events, j \in DOMAIN step'.events :
              step.events[i].delivered \cap step'.events[j].delivered = {}]_vars

\* C31: a background task survives a failed iteration: after a watcher or
\* reconciliation tick the task is still scheduled, and after a heartbeat iteration
\* whose ping failed the heartbeat task of that connection is still running
C31_TaskSurvivesFailedIteration ==
    /\ step.op = "watch" => "file_watcher" \in background_tasks[step.proc]
    /\ step.op = "periodic" => "periodic_broadcast" \in background_tasks[step.proc]
    /\ (step.op = "keep_alive" /\ step.status = "ping_failed") =>
           step.args.websocket \in keep_alive_tasks[step.proc]

\* C37: a sibling learns of the deletion of the active project: when the watcher of
\* a process other than the deleting one, which holds a project in its State Store
\* and has subscribers, adopts the marker the deletion wrote (no project active),
\* it sends its subscribers an event and no longer presents a project that is gone
C37_SiblingAnnouncesDeletion ==
    (/\ step.op = "watch" /\ step.status = "adopted"
     /\ step.proc # Host
     /\ step.args.project_name = ""
     /\ current_project_data[step.proc].project_name # ""
     /\ connected_frontends[step.proc] # {}) =>
        /\ step.events # <<>>
        /\ project_exists(current_project_data[step.proc].project_name)
\* C38: the end of a connection handler never fails, however it interleaves with
\* shutdown: its finally block attempts no removal of a websocket that is not in
\* connected_frontends, and once it has run the websocket is neither registered
\* nor has a keep_alive task
C38_UnregisterNeverFails ==
    step.op = "disconnect" =>
        /\ step.status # "raised"
        /\ step.args.websocket \notin connected_frontends[step.proc]
        /\ step.args.websocket \notin keep_alive_tasks[step.proc]

\* C39: two structural edits that two different subscribers of one process send
\* one after the other lose no update: the second edit starts from the document
\* the first one wrote, so the document stored after both is the second edit
\* applied to the result of the first
C39_NoLostEdit ==
    [][(/\ step.op \in EditOps /\ step.status = "saved"
        /\ step'.op \in EditOps /\ step'.status = "saved"
        /\ step'.proc = step.proc
        /\ step'.args.project_name = step.args.project_name
        /\ step'.args.websocket # step.args.websocket) =>
          LET project_name == step'.args.project_name
          IN  /\ disk[project_name]["frontend_data.js"] = step.ret
              /\ disk'[project_name]["frontend_data.js"] = step'.ret
              /\ EditApplied(step'.op, step'.args.update_data.v,
                             step.ret.v.pages.v, step'.ret.v.pages.v)]_vars

\* subscriber s2's rename of a page that an earlier edit added has been saved, and
\* the stored document holds the added page under its new name
C39_Witness ==
    /\ step.op = "page_rename" /\ step.status = "saved"
    /\ step.args.websocket = "s2"
    /\ step.args.update_data.v.pageId \notin {S("PAGE-FE-0"), None}
    /\ \E i \in DOMAIN step.ret.v.pages.v :
          /\ step.ret.v.pages.v[i].v.id = step.args.update_data.v.pageId
          /\ step.ret.v.pages.v[i].v.name = step.args.update_data.v.newName
    /\ disk[step.args.project_name]["frontend_data.js"] = step.ret

====
